---- MODULE Spec2Model ----
(***************************************************************************)
(* A model of the device-session, device-registry and flow-composition     *)
(* core of nexuscontroller:                                                *)
(*   - the JSON-RPC adapter (mcp_adapter.py) and the FastMCP tool server   *)
(*     (mcp_server.py), which bind a current device and send it commands;  *)
(*   - the Maestro flow builders (android_mcp/controller.py,               *)
(*     nexuscontrol_maestro.py) and the CLI helpers that drive them        *)
(*     (nexuscontroller_cli.py).                                           *)
(*                                                                         *)
(* Text is modelled as a sequence of tokens: a token is either a run of    *)
(* characters holding no line break, or one of the line-break characters   *)
(* "\n" and "\r".                                                          *)
(***************************************************************************)
EXTENDS Integers, Sequences, FiniteSets, TLC

VARIABLES
    bridge,              \* what `adb devices` lists: device id -> status
    android_mcp,         \* mcp_adapter.android_mcp: "None" or "instance"
    proc,                \* the adapter process: "running" or "exited"
    adapter,             \* hasattr(handle_mcp_request, "adapter")
    current_device,      \* MCPAdapter.current_device
    devices,             \* MCPAdapter.devices
    srv_current_device,  \* mcp_server.current_device (module global)
    last,                \* what the last request did (outcome, invocations)
    controller,          \* the flow builder in use: class name
    maestro_flow,        \* AndroidController.maestro_flow (in memory)
    backing_file,        \* content of AndroidController.current_maestro_flow_file
    maestro_flow_file,   \* content of AndroidMCP.maestro_flow_file
    saved_file,          \* content of the user's saved flow file, or NoFile
    menu,                \* where the CLI is: "main" or inside create_and_save_flow
    os_linesep,          \* os.linesep of the platform, as tokens
    flow_op,             \* the last flow operation and its result
    device_cache,        \* device_cache of the controller: device id -> bag
    props,               \* the properties the devices report now
    dev_op,              \* the last device-registry call and its result
    rec                  \* the record_screen call in progress and its thread

sessionVars == <<bridge, android_mcp, proc, adapter, current_device, devices,
                 srv_current_device, last>>
flowVars == <<controller, maestro_flow, backing_file, maestro_flow_file,
              saved_file, menu, os_linesep, flow_op>>
deviceVars == <<device_cache, props, dev_op, rec>>
vars == <<bridge, android_mcp, proc, adapter, current_device, devices,
          srv_current_device, last, controller, maestro_flow, backing_file,
          maestro_flow_file, saved_file, menu, os_linesep, flow_op,
          device_cache, props, dev_op, rec>>

(***************************************************************************)
(* Part 1: the device bridge                                               *)
(***************************************************************************)

\* Python's None.
None == "None"

\* The devices the bridge may list, in the order it lists them.
DevOrder == <<"d1", "d2">>

DeviceIds == {DevOrder[i] : i \in 1..Len(DevOrder)}

\* The status column of `adb devices`; "absent" is a device not listed.
Statuses == {"device", "unauthorized", "absent"}

\* The device argument of a use_device request: a listed device, a device
\* that is never attached, or "" (the default of a missing parameter).
RequestedIds == DeviceIds \cup {"ghost", ""}

\* Python's `x in list`.
InList(x, list) == \E i \in 1..Len(list) : list[i] = x

\* One external process invocation: the device it targets (None for
\* `adb devices`), the command, its arguments as the strings put on the
\* command line, and the bridge's status of the target at the time the
\* command was issued.
Cmd(dev, cmd, arg) ==
    [dev |-> dev, cmd |-> cmd, arg |-> arg,
     status |-> IF dev \in DeviceIds THEN bridge[dev] ELSE "absent"]

AdbDevices == [dev |-> None, cmd |-> "devices", arg |-> <<>>, status |-> "absent"]

\* The text `adb devices` prints: a header line, one line "<id>\t<status>"
\* for every device attached, in the bridge's order, and an empty line.
\* Text is a sequence of tokens, the line break and the tab being tokens.
NL == "\n"

CR == "\r"

RECURSIVE DeviceLines(_)
DeviceLines(order) ==
    IF order = <<>> THEN <<>>
    ELSE (IF bridge[Head(order)] = "absent" THEN <<>>
          ELSE <<Head(order), "\t", bridge[Head(order)], NL>>)
         \o DeviceLines(Tail(order))

adb_devices_stdout ==
    <<"List of devices attached", NL>> \o DeviceLines(DevOrder) \o <<NL>>

\* str.strip(): leading and trailing whitespace is dropped.
RECURSIVE strip(_)
strip(text) ==
    IF text = <<>> THEN <<>>
    ELSE IF Head(text) \in {NL, "\t"} THEN strip(Tail(text))
    ELSE IF text[Len(text)] \in {NL, "\t"}
    THEN strip(SubSeq(text, 1, Len(text) - 1))
    ELSE text

\* str.split(sep): the pieces between the separators, empty ones included.
RECURSIVE split(_, _)
split(text, sep) ==
    IF \A i \in 1..Len(text) : text[i] # sep THEN <<text>>
    ELSE LET i == CHOOSE i \in 1..Len(text) :
                      /\ text[i] = sep
                      /\ \A j \in 1..(i - 1) : text[j] # sep
         IN <<SubSeq(text, 1, i - 1)>>
            \o split(SubSeq(text, i + 1, Len(text)), sep)

\* The loop of get_devices over the lines after the header: a non-blank
\* line with two tab-separated parts or more gives its first part when its
\* second is "device".
RECURSIVE devices_of(_)
devices_of(lines) ==
    IF lines = <<>> THEN <<>>
    ELSE LET line == Head(lines)
             parts == split(line, "\t")
         IN (IF /\ strip(line) # <<>>
                /\ Len(parts) >= 2
                /\ strip(parts[2]) = <<"device">>
             THEN strip(parts[1]) ELSE <<>>)
            \o devices_of(Tail(lines))

\* A faulty get_devices that returns every device listed, whatever its
\* status.
get_devices_AnyStatus == SelectSeq(DevOrder, LAMBDA d : bridge[d] # "absent")

\* get_devices() of AndroidController, AndroidMCP and the adapter: the
\* listed ids whose status is "device", in the bridge's order.
get_devices == devices_of(Tail(split(strip(adb_devices_stdout), NL)))

\* Whether a command sent to `dev` can succeed: never on a device the bridge
\* does not report as authorized.
Reachable(dev) == dev \in DeviceIds /\ bridge[dev] = "device"

(***************************************************************************)
(* Part 2: MCPAdapter (mcp_adapter.py).  Every method is an operator from  *)
(* the adapter's fields and the call's inputs to what the call returns,    *)
(* the fields after it, and the external invocations it made.              *)
(***************************************************************************)

\* Python's truth value of current_device: None and "" are falsy.
Truthy(dev) == dev # None /\ dev # ""

\* MCPAdapter.refresh_devices; `ok` is FALSE when get_devices raised.
refresh_devices(ok) == IF ok THEN get_devices ELSE <<>>

\* A faulty use_device that drops the binding when the device is not found.
use_device_Unbinds(cur, devs, device_id, ok) ==
    IF InList(device_id, devs)
    THEN [success |-> TRUE, current_device |-> device_id, devices |-> devs,
          cmds |-> <<>>]
    ELSE LET refreshed == refresh_devices(ok) IN
         IF InList(device_id, refreshed)
         THEN [success |-> TRUE, current_device |-> device_id,
               devices |-> refreshed, cmds |-> <<AdbDevices>>]
         ELSE [success |-> FALSE, current_device |-> None,
               devices |-> refreshed, cmds |-> <<AdbDevices>>]

\* MCPAdapter.use_device(device_id, device_type).
use_device(cur, devs, device_id, ok) ==
    IF InList(device_id, devs)
    THEN [success |-> TRUE, current_device |-> device_id, devices |-> devs,
          cmds |-> <<>>]
    ELSE LET refreshed == refresh_devices(ok) IN
         IF InList(device_id, refreshed)
         THEN [success |-> TRUE, current_device |-> device_id,
               devices |-> refreshed, cmds |-> <<AdbDevices>>]
         ELSE [success |-> FALSE, current_device |-> cur,
               devices |-> refreshed, cmds |-> <<AdbDevices>>]

\* The result of a method that returns before doing anything.
Refused == [success |-> FALSE, cmds |-> <<>>]

\* Commands run one after the other with check=True: the first `failAt - 1`
\* succeed and the failAt-th raises (0: none raises).
Issued(cmds, failAt) == IF failAt = 0 THEN cmds ELSE SubSeq(cmds, 1, failAt)

\* The values failAt can take for n check=True commands sent to `dev`.
FailPoints(dev, n) == IF Reachable(dev) THEN 0..n ELSE {1}

\* MCPAdapter.tap_screen(x, y).
tap_screen(cur, x, y, failAt) ==
    IF ~Truthy(cur) THEN Refused
    ELSE [success |-> failAt = 0,
          cmds |-> <<Cmd(cur, "input tap", <<ToString(x), ToString(y)>>)>>]

\* MCPAdapter.get_screen_size; `parsed` is whether the output of `wm size`
\* held a "Physical size: WxH" line.
get_screen_size(cur, parsed) ==
    IF ~Truthy(cur) THEN Refused
    ELSE [success |-> parsed, cmds |-> <<Cmd(cur, "wm size", <<>>)>>]

\* str.lower() on the directions a request can carry.
Lower(s) == CASE s = "UP" -> "up" [] s = "Down" -> "down" [] OTHER -> s

\* MCPAdapter.swipe_screen(direction).
swipe_screen(cur, direction, parsed, failAt) ==
    IF ~Truthy(cur) THEN Refused
    ELSE LET size_result == get_screen_size(cur, parsed) IN
         IF ~size_result.success
         THEN [success |-> FALSE, cmds |-> size_result.cmds]
         ELSE IF Lower(direction) \notin {"up", "down"}
         THEN [success |-> FALSE, cmds |-> size_result.cmds]
         ELSE [success |-> failAt = 0,
               cmds |-> size_result.cmds
                        \o <<Cmd(cur, "input swipe", <<Lower(direction)>>)>>]

\* KEYCODE_ENTER, sent by type_keys when submit is set.
KeycodeEnter == 66

\* MCPAdapter.type_keys(text, submit).
type_keys(cur, text, submit, failAt) ==
    IF ~Truthy(cur) THEN Refused
    ELSE LET all == <<Cmd(cur, "input text", <<text>>)>>
                    \o (IF submit
                        THEN <<Cmd(cur, "input keyevent", <<ToString(KeycodeEnter)>>)>>
                        ELSE <<>>)
         IN [success |-> failAt = 0, cmds |-> Issued(all, failAt)]

\* A faulty button_map that gives BACK the keycode of HOME.
button_map_BackIsHome ==
    [b \in {"BACK", "HOME", "VOLUME_UP", "VOLUME_DOWN", "ENTER"} |->
        CASE b = "BACK" -> 3
          [] b = "HOME" -> 3
          [] b = "VOLUME_UP" -> 24
          [] b = "VOLUME_DOWN" -> 25
          [] b = "ENTER" -> 66]

\* button_map of MCPAdapter.press_button.
button_map ==
    [b \in {"BACK", "HOME", "VOLUME_UP", "VOLUME_DOWN", "ENTER"} |->
        CASE b = "BACK" -> 4
          [] b = "HOME" -> 3
          [] b = "VOLUME_UP" -> 24
          [] b = "VOLUME_DOWN" -> 25
          [] b = "ENTER" -> 66]

\* str.upper() on the button names a request can carry.
Upper(s) == CASE s = "home" -> "HOME" [] s = "back" -> "BACK" [] OTHER -> s

\* A faulty press_button that does not look at the binding.
press_button_Unguarded(cur, button, failAt) ==
    IF Upper(button) \notin DOMAIN button_map THEN [success |-> FALSE, cmds |-> <<>>]
    ELSE [success |-> failAt = 0,
          cmds |-> <<Cmd(cur, "input keyevent",
                       <<ToString(button_map[Upper(button)])>>)>>]

\* MCPAdapter.press_button(button).
press_button(cur, button, failAt) ==
    IF ~Truthy(cur) THEN Refused
    ELSE IF Upper(button) \notin DOMAIN button_map THEN Refused
    ELSE [success |-> failAt = 0,
          cmds |-> <<Cmd(cur, "input keyevent",
                       <<ToString(button_map[Upper(button)])>>)>>]

\* A take_screenshot that removes the remote file before pulling it.
take_screenshot_RemoveFirst(cur, failAt) ==
    IF ~Truthy(cur) THEN Refused
    ELSE [success |-> failAt = 0,
          cmds |-> Issued(<<Cmd(cur, "screencap", <<>>), Cmd(cur, "rm", <<>>),
                            Cmd(cur, "pull", <<>>)>>, failAt)]

\* MCPAdapter.take_screenshot: AndroidMCP.take_screenshot runs three checked
\* commands, then the adapter reads the pulled file.
take_screenshot(cur, failAt) ==
    IF ~Truthy(cur) THEN Refused
    ELSE [success |-> failAt = 0,
          cmds |-> Issued(<<Cmd(cur, "screencap", <<>>), Cmd(cur, "pull", <<>>),
                            Cmd(cur, "rm", <<>>)>>, failAt)]

\* MCPAdapter.list_apps.
list_apps(cur, failAt) ==
    IF ~Truthy(cur) THEN Refused
    ELSE [success |-> failAt = 0,
          cmds |-> <<Cmd(cur, "pm list packages", <<>>)>>]

\* MCPAdapter.launch_app, terminate_app and open_url: one shell command run
\* with check=False, whose outcome is not looked at.
shell_op(cur, command, arg) ==
    IF ~Truthy(cur) THEN Refused
    ELSE [success |-> TRUE, cmds |-> <<Cmd(cur, command, <<arg>>)>>]

launch_app(cur, package_name) == shell_op(cur, "monkey", package_name)

terminate_app(cur, package_name) == shell_op(cur, "am force-stop", package_name)

open_url(cur, url) == shell_op(cur, "am start VIEW", url)

\* MCPAdapter.list_elements_on_screen; `xml` says what the parse of the
\* pulled dump met: "ok", "invalid" (the file is there and does not parse)
\* or "missing" (no file: os.remove raises in the finally block, before the
\* remote rm is sent).
list_elements_on_screen(cur, xml) ==
    IF ~Truthy(cur) THEN Refused
    ELSE LET dump == <<Cmd(cur, "uiautomator dump", <<>>), Cmd(cur, "pull", <<>>)>> IN
         [success |-> xml = "ok",
          cmds |-> IF xml = "missing" THEN dump
                   ELSE dump \o <<Cmd(cur, "rm", <<>>)>>]

\* What the parse of the pulled dump can meet on device `dev`.
XmlOutcomes(dev) ==
    IF Reachable(dev) THEN {"ok", "invalid", "missing"} ELSE {"missing"}

(***************************************************************************)
(* Part 3: the FastMCP tools (mcp_server.py).  A tool returns its value or *)
(* raises; `message` is the text of the exception first raised.            *)
(***************************************************************************)

Returned(cmds) == [success |-> TRUE, message |-> "", cmds |-> cmds]

Raised(message, cmds) == [success |-> FALSE, message |-> message, cmds |-> cmds]

NoDeviceSelected == Raised("No device selected", <<>>)

\* mcp_server.use_device(device, deviceType); `ok` is FALSE when
\* get_devices raised.
srv_use_device(cur, device, ok) ==
    IF ~Truthy(device)
    THEN [success |-> FALSE, current_device |-> cur,
          message |-> "Missing required parameter: device", cmds |-> <<>>]
    ELSE IF ~ok
    THEN [success |-> FALSE, current_device |-> cur,
          message |-> "adb devices failed", cmds |-> <<AdbDevices>>]
    ELSE IF InList(device, get_devices)
    THEN [success |-> TRUE, current_device |-> device, message |-> "",
          cmds |-> <<AdbDevices>>]
    ELSE [success |-> FALSE, current_device |-> cur,
          message |-> "Device not found", cmds |-> <<AdbDevices>>]

\* mcp_server.click_on_screen_at_coordinates(x, y).
click_on_screen_at_coordinates(cur, x, y, given, failAt) ==
    IF ~Truthy(cur) THEN NoDeviceSelected
    ELSE IF ~given
    THEN Raised("Missing required parameters: x and y", <<>>)
    ELSE LET cmds == <<Cmd(cur, "input tap", <<ToString(x), ToString(y)>>)>> IN
         IF failAt = 0 THEN Returned(cmds) ELSE Raised("command failed", cmds)

\* mcp_server.press_button(button): the name is looked up as given.
srv_press_button(cur, button, failAt) ==
    IF ~Truthy(cur) THEN NoDeviceSelected
    ELSE IF button = "" THEN Raised("Missing required parameter: button", <<>>)
    ELSE IF button \notin DOMAIN button_map THEN Raised("Invalid button", <<>>)
    ELSE LET cmds == <<Cmd(cur, "input keyevent",
                           <<ToString(button_map[button])>>)>> IN
         IF failAt = 0 THEN Returned(cmds) ELSE Raised("command failed", cmds)

\* mcp_server.type_keys(text, submit).
srv_type_keys(cur, text, submit, failAt) ==
    IF ~Truthy(cur) THEN NoDeviceSelected
    ELSE IF text = "" THEN Raised("Missing required parameter: text", <<>>)
    ELSE LET all == <<Cmd(cur, "input text", <<text>>)>>
                    \o (IF submit
                        THEN <<Cmd(cur, "input keyevent",
                                   <<ToString(KeycodeEnter)>>)>>
                        ELSE <<>>)
         IN IF failAt = 0 THEN Returned(all)
            ELSE Raised("command failed", Issued(all, failAt))

\* mcp_server.swipe_on_screen(direction): the screen size falls back to a
\* default when `wm size` does not parse.
swipe_on_screen(cur, direction, failAt) ==
    IF ~Truthy(cur) THEN NoDeviceSelected
    ELSE IF direction = ""
    THEN Raised("Missing required parameter: direction", <<>>)
    ELSE LET size == <<Cmd(cur, "wm size", <<>>)>> IN
         IF Lower(direction) \notin {"up", "down"}
         THEN Raised("Invalid direction", size)
         ELSE LET all == size \o <<Cmd(cur, "input swipe", <<Lower(direction)>>)>> IN
              IF failAt = 0 THEN Returned(all) ELSE Raised("command failed", all)

\* mcp_server.launch_app, terminate_app and open_url.
srv_shell_op(cur, command, param, arg) ==
    IF ~Truthy(cur) THEN NoDeviceSelected
    ELSE IF arg = "" THEN Raised(param, <<>>)
    ELSE Returned(<<Cmd(cur, command, <<arg>>)>>)

srv_launch_app(cur, packageName) ==
    srv_shell_op(cur, "monkey", "Missing required parameter: packageName",
                 packageName)

srv_terminate_app(cur, packageName) ==
    srv_shell_op(cur, "am force-stop",
                 "Missing required parameter: packageName", packageName)

srv_open_url(cur, url) ==
    srv_shell_op(cur, "am start VIEW", "Missing required parameter: url", url)

\* mcp_server.get_screen_size.
srv_get_screen_size(cur, parsed) ==
    IF ~Truthy(cur) THEN NoDeviceSelected
    ELSE IF parsed THEN Returned(<<Cmd(cur, "wm size", <<>>)>>)
    ELSE Raised("Failed to get screen size", <<Cmd(cur, "wm size", <<>>)>>)

\* mcp_server.list_apps.
srv_list_apps(cur, failAt) ==
    IF ~Truthy(cur) THEN NoDeviceSelected
    ELSE LET cmds == <<Cmd(cur, "pm list packages", <<>>)>> IN
         IF failAt = 0 THEN Returned(cmds) ELSE Raised("command failed", cmds)

\* mcp_server.take_screenshot.
srv_take_screenshot(cur, failAt) ==
    IF ~Truthy(cur) THEN NoDeviceSelected
    ELSE LET all == <<Cmd(cur, "screencap", <<>>), Cmd(cur, "pull", <<>>),
                      Cmd(cur, "rm", <<>>)>> IN
         IF failAt = 0 THEN Returned(all)
         ELSE Raised("command failed", Issued(all, failAt))

\* mcp_server.list_elements_on_screen: the dump is removed only after a
\* parse that succeeded.
srv_list_elements_on_screen(cur, xml) ==
    IF ~Truthy(cur) THEN NoDeviceSelected
    ELSE LET dump == <<Cmd(cur, "uiautomator dump", <<>>),
                       Cmd(cur, "pull", <<>>)>> IN
         CASE xml = "ok" -> Returned(dump \o <<Cmd(cur, "rm", <<>>)>>)
           [] xml = "invalid" -> Raised("Failed to parse UI hierarchy", dump)
           [] OTHER -> Raised("Failed to get UI hierarchy", dump)

(***************************************************************************)
(* Part 4: requests.  handle_mcp_request constructs the adapter on the     *)
(* first request, routes the method and wraps the outcome in a response.   *)
(***************************************************************************)

\* The error codes of handle_mcp_request.
OperationFailed == -32000

MethodNotFound == -32601

\* The inputs a request can carry.
ReqIds == {1}

Coords == {-1, 7}

Texts == {"", "hi"}

Buttons == {"", "BACK", "home", "POWER"}

Directions == {"", "up", "Down", "left"}

Packages == {"", "com.app"}

Urls == {"", "http://x"}

\* The session-scoped methods of the adapter and the tools of the server.
SessionMethods ==
    {"mcp.mobile_take_screenshot", "mcp.mobile_list_apps",
     "mcp.mobile_launch_app", "mcp.mobile_terminate_app",
     "mcp.mobile_get_screen_size",
     "mcp.mobile_click_on_screen_at_coordinates", "mcp.swipe_on_screen",
     "mcp.mobile_type_keys", "mcp.mobile_press_button", "mcp.mobile_open_url",
     "mcp.mobile_list_elements_on_screen"}

SessionTools ==
    {"take_screenshot", "list_apps", "launch_app", "terminate_app",
     "get_screen_size", "click_on_screen_at_coordinates", "swipe_on_screen",
     "type_keys", "press_button", "open_url", "list_elements_on_screen"}

\* The message handle_mcp_request puts in the error of a failed method.
FailMessage(method) ==
    CASE method = "mcp.mobile_use_device" -> "Failed to use device"
      [] method = "mcp.mobile_take_screenshot" -> "Failed to take screenshot"
      [] method = "mcp.mobile_list_apps" -> "Failed to list apps"
      [] method = "mcp.mobile_launch_app" -> "Failed to launch app"
      [] method = "mcp.mobile_terminate_app" -> "Failed to terminate app"
      [] method = "mcp.mobile_get_screen_size" -> "Failed to get screen size"
      [] method = "mcp.mobile_click_on_screen_at_coordinates" -> "Failed to tap screen"
      [] method = "mcp.swipe_on_screen" -> "Failed to swipe screen"
      [] method = "mcp.mobile_type_keys" -> "Failed to type text"
      [] method = "mcp.mobile_press_button" -> "Failed to press button"
      [] method = "mcp.mobile_open_url" -> "Failed to open URL"
      [] method = "mcp.mobile_list_elements_on_screen" -> "Failed to list elements"
      [] OTHER -> "Method not found"

\* No request yet.
NoRequest ==
    [impl |-> "none", method |-> "", id |-> 0, arg |-> None, prior |-> None,
     init |-> FALSE, success |-> FALSE, raised |-> FALSE, jsonrpc |-> "",
     has_result |-> FALSE, has_error |-> FALSE, code |-> 0, message |-> "",
     cmds |-> <<>>]

\* The adapter's fields once handle_mcp_request has made sure it exists:
\* MCPAdapter.__init__ leaves it unbound and lists the devices once.
\* A faulty handler that constructs a new adapter for every request.
Cur0_PerRequest == None

Cur0 == IF adapter THEN current_device ELSE None

Devs0(okInit) == IF adapter THEN devices ELSE refresh_devices(okInit)

InitCmds == IF adapter THEN <<>> ELSE <<AdbDevices>>

\* Whether the `adb devices` of the constructor succeeds, when it runs.
InitOutcomes == IF adapter THEN {TRUE} ELSE BOOLEAN

\* A faulty handler that puts a result in every response, failed or not.
Handle_ResultKept(method, id, arg, r, cur1, devs1) ==
    /\ proc = "running"
    /\ adapter \/ android_mcp = "instance"
    /\ adapter' = TRUE
    /\ current_device' = cur1
    /\ devices' = devs1
    /\ last' = [impl |-> "adapter", method |-> method, id |-> id, arg |-> arg,
                prior |-> Cur0, init |-> ~adapter, success |-> r.success,
                raised |-> FALSE, jsonrpc |-> "2.0",
                has_result |-> TRUE, has_error |-> ~r.success,
                code |-> IF r.success THEN 0 ELSE OperationFailed,
                message |-> IF r.success THEN "" ELSE FailMessage(method),
                cmds |-> InitCmds \o r.cmds]
    /\ UNCHANGED <<bridge, android_mcp, proc, srv_current_device>>
    /\ UNCHANGED <<flowVars, deviceVars>>

\* handle_mcp_request for a request that parses and names a known method:
\* `r` is what the adapter's method returned, cur1 and devs1 the adapter's
\* fields after it.
Handle(method, id, arg, r, cur1, devs1) ==
    /\ proc = "running"
    /\ adapter \/ android_mcp = "instance"
    /\ adapter' = TRUE
    /\ current_device' = cur1
    /\ devices' = devs1
    /\ last' = [impl |-> "adapter", method |-> method, id |-> id, arg |-> arg,
                prior |-> Cur0, init |-> ~adapter, success |-> r.success,
                raised |-> FALSE, jsonrpc |-> "2.0",
                has_result |-> r.success, has_error |-> ~r.success,
                code |-> IF r.success THEN 0 ELSE OperationFailed,
                message |-> IF r.success THEN "" ELSE FailMessage(method),
                cmds |-> InitCmds \o r.cmds]
    /\ UNCHANGED <<bridge, android_mcp, proc, srv_current_device>>
    /\ UNCHANGED <<flowVars, deviceVars>>

\* A session-scoped method: it reads the binding and leaves the fields alone.
HandleOp(method, id, r, okInit) ==
    Handle(method, id, None, r, Cur0, Devs0(okInit))

\* MCPAdapter.__init__ with no NexusControl instance: initialize() calls
\* sys.exit(1), and SystemExit passes both `except Exception` handlers.
ReqExit ==
    /\ proc = "running"
    /\ ~adapter
    /\ android_mcp = "None"
    /\ proc' = "exited"
    /\ UNCHANGED <<bridge, android_mcp, adapter, current_device, devices,
                   srv_current_device, last>>
    /\ UNCHANGED <<flowVars, deviceVars>>

ReqUseDevice ==
    \E id \in ReqIds, device \in RequestedIds, okInit \in InitOutcomes, ok \in BOOLEAN :
        LET r == use_device(Cur0, Devs0(okInit), device, ok) IN
        Handle("mcp.mobile_use_device", id, device, r, r.current_device,
               r.devices)

\* mcp.mobile_list_available_devices: list_devices refreshes the list and
\* asks AndroidMCP.get_device_info for every device; `cached` are the devices
\* whose properties the controller already holds.
ReqListDevices ==
    \E id \in ReqIds, okInit \in InitOutcomes, ok \in BOOLEAN, cached \in SUBSET DeviceIds :
        LET devs == refresh_devices(ok)
            asked == SelectSeq(devs, LAMBDA d : d \notin cached)
            r == [success |-> TRUE,
                  cmds |-> <<AdbDevices>>
                           \o [i \in 1..Len(asked) |-> Cmd(asked[i], "getprop", <<>>)]]
        IN Handle("mcp.mobile_list_available_devices", id, None, r, Cur0, devs)

ReqTakeScreenshot ==
    \E id \in ReqIds, okInit \in InitOutcomes, failAt \in FailPoints(Cur0, 3) :
        HandleOp("mcp.mobile_take_screenshot", id,
                 take_screenshot(Cur0, failAt), okInit)

ReqListApps ==
    \E id \in ReqIds, okInit \in InitOutcomes, failAt \in FailPoints(Cur0, 1) :
        HandleOp("mcp.mobile_list_apps", id, list_apps(Cur0, failAt), okInit)

ReqLaunchApp ==
    \E id \in ReqIds, okInit \in InitOutcomes, packageName \in Packages :
        Handle("mcp.mobile_launch_app", id, packageName,
               launch_app(Cur0, packageName), Cur0, Devs0(okInit))

ReqTerminateApp ==
    \E id \in ReqIds, okInit \in InitOutcomes, packageName \in Packages :
        Handle("mcp.mobile_terminate_app", id, packageName,
               terminate_app(Cur0, packageName), Cur0, Devs0(okInit))

ReqGetScreenSize ==
    \E id \in ReqIds, okInit \in InitOutcomes, parsed \in BOOLEAN :
        /\ parsed => Reachable(Cur0)
        /\ HandleOp("mcp.mobile_get_screen_size", id,
                    get_screen_size(Cur0, parsed), okInit)

\* mcp.mobile_click_on_screen_at_coordinates: x and y default to 0 when
\* the request does not carry them.
ReqClick ==
    \E id \in ReqIds, okInit \in InitOutcomes, x \in Coords, y \in Coords,
       given \in BOOLEAN, failAt \in FailPoints(Cur0, 1) :
        Handle("mcp.mobile_click_on_screen_at_coordinates", id,
               IF given THEN ToString(x) \o "," \o ToString(y) ELSE "",
               IF given THEN tap_screen(Cur0, x, y, failAt)
               ELSE tap_screen(Cur0, 0, 0, failAt),
               Cur0, Devs0(okInit))

ReqSwipe ==
    \E id \in ReqIds, okInit \in InitOutcomes, direction \in Directions,
       parsed \in BOOLEAN, failAt \in FailPoints(Cur0, 1) :
        /\ parsed => Reachable(Cur0)
        /\ Handle("mcp.swipe_on_screen", id, direction,
                  swipe_screen(Cur0, direction, parsed, failAt),
                  Cur0, Devs0(okInit))

ReqTypeKeys ==
    \E id \in ReqIds, okInit \in InitOutcomes, text \in Texts, submit \in BOOLEAN :
        \E failAt \in FailPoints(Cur0, IF submit THEN 2 ELSE 1) :
            Handle("mcp.mobile_type_keys", id, text,
                   type_keys(Cur0, text, submit, failAt), Cur0, Devs0(okInit))

ReqPressButton ==
    \E id \in ReqIds, okInit \in InitOutcomes, button \in Buttons,
       failAt \in FailPoints(Cur0, 1) :
        Handle("mcp.mobile_press_button", id, button,
               press_button(Cur0, button, failAt), Cur0, Devs0(okInit))

ReqOpenUrl ==
    \E id \in ReqIds, okInit \in InitOutcomes, url \in Urls :
        Handle("mcp.mobile_open_url", id, url, open_url(Cur0, url), Cur0,
               Devs0(okInit))

ReqListElements ==
    \E id \in ReqIds, okInit \in InitOutcomes, xml \in XmlOutcomes(Cur0) :
        HandleOp("mcp.mobile_list_elements_on_screen", id,
                 list_elements_on_screen(Cur0, xml), okInit)

\* A method name handle_mcp_request does not route: the adapter is
\* constructed all the same, and the response is the method-not-found error.
ReqUnknownMethod ==
    \E id \in ReqIds, okInit \in InitOutcomes :
        /\ proc = "running"
        /\ adapter \/ android_mcp = "instance"
        /\ adapter' = TRUE
        /\ current_device' = Cur0
        /\ devices' = Devs0(okInit)
        /\ last' = [NoRequest EXCEPT !.impl = "adapter", !.method = "unknown",
                                     !.id = id, !.prior = Cur0,
                                     !.jsonrpc = "2.0",
                                     !.init = ~adapter, !.has_error = TRUE,
                                     !.code = MethodNotFound,
                                     !.message = "Method not found",
                                     !.cmds = InitCmds]
        /\ UNCHANGED <<bridge, android_mcp, proc, srv_current_device>>
        /\ UNCHANGED <<flowVars, deviceVars>>

\* A request line json.loads cannot parse: the outer handler answers with
\* id 0 before the adapter is looked at.
ReqMalformed ==
    /\ proc = "running"
    /\ last' = [NoRequest EXCEPT !.impl = "adapter", !.method = "malformed",
                                 !.prior = Cur0, !.has_error = TRUE,
                                 !.jsonrpc = "2.0",
                                 !.code = OperationFailed,
                                 !.message = "Error handling request"]
    /\ UNCHANGED <<bridge, android_mcp, proc, adapter, current_device, devices,
                   srv_current_device>>
    /\ UNCHANGED <<flowVars, deviceVars>>

\* A call of a FastMCP tool: `r` is what the tool returned or raised, cur1
\* the module's current_device after it.
Tool(name, arg, r, cur1) ==
    /\ srv_current_device' = cur1
    /\ last' = [NoRequest EXCEPT !.impl = "server", !.method = name,
                                 !.arg = arg, !.prior = srv_current_device,
                                 !.success = r.success, !.raised = ~r.success,
                                 !.message = r.message, !.cmds = r.cmds]
    /\ UNCHANGED <<bridge, android_mcp, proc, adapter, current_device, devices>>
    /\ UNCHANGED <<flowVars, deviceVars>>

\* A session-scoped tool: it reads the binding and leaves it alone.
ToolOp(name, r) == Tool(name, None, r, srv_current_device)

ToolUseDevice ==
    \E device \in RequestedIds, ok \in BOOLEAN :
        LET r == srv_use_device(srv_current_device, device, ok) IN
        Tool("use_device", device, r, r.current_device)

ToolTakeScreenshot ==
    \E failAt \in FailPoints(srv_current_device, 3) :
        ToolOp("take_screenshot", srv_take_screenshot(srv_current_device, failAt))

ToolListApps ==
    \E failAt \in FailPoints(srv_current_device, 1) :
        ToolOp("list_apps", srv_list_apps(srv_current_device, failAt))

ToolLaunchApp ==
    \E packageName \in Packages :
        Tool("launch_app", packageName,
             srv_launch_app(srv_current_device, packageName),
             srv_current_device)

ToolTerminateApp ==
    \E packageName \in Packages :
        Tool("terminate_app", packageName,
             srv_terminate_app(srv_current_device, packageName),
             srv_current_device)

ToolGetScreenSize ==
    \E parsed \in BOOLEAN :
        /\ parsed => Reachable(srv_current_device)
        /\ ToolOp("get_screen_size",
                  srv_get_screen_size(srv_current_device, parsed))

ToolClick ==
    \E x \in Coords, y \in Coords, given \in BOOLEAN,
       failAt \in FailPoints(srv_current_device, 1) :
        Tool("click_on_screen_at_coordinates", IF given THEN ToString(x) \o "," \o ToString(y) ELSE "",
             click_on_screen_at_coordinates(srv_current_device, x, y, given,
                                            failAt),
             srv_current_device)

ToolSwipe ==
    \E direction \in Directions, failAt \in FailPoints(srv_current_device, 1) :
        Tool("swipe_on_screen", direction,
             swipe_on_screen(srv_current_device, direction, failAt),
             srv_current_device)

ToolTypeKeys ==
    \E text \in Texts, submit \in BOOLEAN :
        \E failAt \in FailPoints(srv_current_device, IF submit THEN 2 ELSE 1) :
            Tool("type_keys", text,
                 srv_type_keys(srv_current_device, text, submit, failAt),
                 srv_current_device)

ToolPressButton ==
    \E button \in Buttons, failAt \in FailPoints(srv_current_device, 1) :
        Tool("press_button", button,
             srv_press_button(srv_current_device, button, failAt),
             srv_current_device)

ToolOpenUrl ==
    \E url \in Urls :
        Tool("open_url", url, srv_open_url(srv_current_device, url),
             srv_current_device)

ToolListElements ==
    \E xml \in XmlOutcomes(srv_current_device) :
        ToolOp("list_elements_on_screen",
               srv_list_elements_on_screen(srv_current_device, xml))

\* The environment: a device is attached, detached, authorized or loses its
\* authorization between two requests.
BridgeChange ==
    \E d \in DeviceIds, st \in Statuses :
        /\ st # bridge[d]
        /\ bridge' = [bridge EXCEPT ![d] = st]
        /\ UNCHANGED <<android_mcp, proc, adapter, current_device, devices,
                       srv_current_device, last>>
        /\ UNCHANGED <<flowVars, deviceVars>>

(***************************************************************************)
(* Part 5: flow text and files.  A text is a sequence of tokens; a file    *)
(* holds the tokens written to it, line breaks as the platform spells them.*)
(***************************************************************************)

\* f.write(text) on a file opened in text mode: every "\n" is written as
\* os.linesep.
RECURSIVE WriteText(_, _)
WriteText(text, linesep) ==
    IF text = <<>> THEN <<>>
    ELSE (IF Head(text) = NL THEN linesep ELSE <<Head(text)>>)
         \o WriteText(Tail(text), linesep)

\* A faulty read that does no newline translation (a file opened in binary
\* mode).
ReadText_Binary(content) == content

\* f.read() on a file opened in text mode (universal newlines): "\r\n" and
\* a lone "\r" are both read as "\n".
RECURSIVE ReadText(_)
ReadText(content) ==
    IF content = <<>> THEN <<>>
    ELSE IF Head(content) = CR
    THEN IF Len(content) > 1 /\ content[2] = NL
         THEN <<NL>> \o ReadText(SubSeq(content, 3, Len(content)))
         ELSE <<NL>> \o ReadText(Tail(content))
    ELSE <<Head(content)>> \o ReadText(Tail(content))

\* A file that does not exist, and a file holding `content`.
NoFile == [exists |-> FALSE, content |-> <<>>]

File(content) == [exists |-> TRUE, content |-> content]

\* The comment line clear_maestro_flow writes.
Header == <<"# Maestro Flow generated by Android MCP", NL>>

\* The mode AndroidController.clear_maestro_flow opens its file in, a
\* setting of android_mcp/config.py: clearing writes the file afresh.
WRITE_MODE == "w"

\* with open(file, mode) as f: f.write(text).  Mode "w" truncates the
\* file, mode "a" writes at its end.
open_write(file, mode, text, linesep) ==
    IF mode = "w" THEN File(WriteText(text, linesep))
    ELSE File(file.content \o WriteText(text, linesep))

\* What the user can type at a prompt (input() returns one line, without
\* its line break) and what the helpers are called with.
FlowTexts == {"", "hi"}

FlowIds == {"", "btn"}

FlowPackages == {"", "com.app"}

PointStrings == {"", "1,2"}

\* str.split(",") and str.strip() on the coordinates a caller can give.
SplitComma(point) == IF point = "1,2" THEN <<"1", "2">> ELSE <<point>>

(***************************************************************************)
(* Part 6: the flow builder of AndroidController (android_mcp/             *)
(* controller.py) and the CLI helpers (nexuscontroller_cli.py).            *)
(***************************************************************************)

\* A faulty append that puts the snippet in front.
append_to_maestro_flow_InFront(flow, yaml_snippet) == yaml_snippet \o flow

\* AndroidController.append_to_maestro_flow(yaml_snippet).
append_to_maestro_flow(flow, yaml_snippet) == flow \o yaml_snippet

\* The outcome of a helper that builds a snippet: the snippet, or an
\* exception.
Built(snippet) == [raised |-> FALSE, snippet |-> snippet]

ValueError == [raised |-> TRUE, snippet |-> <<>>]

\* create_maestro_tap(text, id, point).
create_maestro_tap(text, id, point) ==
    IF text # "" THEN Built(<<"- tapOn:", NL, "    text: \"" \o text \o "\"", NL>>)
    ELSE IF id # "" THEN Built(<<"- tapOn:", NL, "    id: \"" \o id \o "\"", NL>>)
    ELSE IF point # <<>> /\ Len(point) = 2
    THEN Built(<<"- tapOn:", NL,
                 "    point: [" \o point[1] \o ", " \o point[2] \o "]", NL>>)
    ELSE ValueError

\* create_maestro_input(text, id).
create_maestro_input(text, id) ==
    IF id # ""
    THEN <<"- inputText:", NL, "    id: \"" \o id \o "\"", NL,
           "    text: \"" \o text \o "\"", NL>>
    ELSE <<"- inputText:", NL, "    text: \"" \o text \o "\"", NL>>

\* create_maestro_swipe(start, end): unpacking the split raises ValueError
\* unless there are exactly two parts.
create_maestro_swipe(start, end) ==
    IF Len(SplitComma(start)) # 2 \/ Len(SplitComma(end)) # 2 THEN ValueError
    ELSE Built(<<"- swipe:", NL,
                 "    start: \"" \o SplitComma(start)[1] \o ","
                     \o SplitComma(start)[2] \o "\"", NL,
                 "    end: \"" \o SplitComma(end)[1] \o ","
                     \o SplitComma(end)[2] \o "\"", NL>>)

\* A faulty declaration snippet with the separator in front.
AppId_SeparatorFirst(package_name) ==
    <<"---", NL, "appId: " \o package_name, NL>>

\* The two snippets create_complete_flow and create_and_save_flow start a
\* flow with.
AppId(package_name) == <<"appId: " \o package_name, NL, "---", NL>>

LaunchApp == <<"- launchApp", NL>>

\* The loop of create_complete_flow: one append per action, in order.
RECURSIVE AppendAll(_, _)
AppendAll(flow, actions) ==
    IF actions = <<>> THEN flow
    ELSE AppendAll(append_to_maestro_flow(flow, Head(actions)), Tail(actions))

\* A faulty create_complete_flow that appends the actions before the
\* declaration and the launch.
create_complete_flow_ActionsFirst(package_name, actions) ==
    LET cleared == <<>>
        acted == AppendAll(cleared, actions)
        declared == append_to_maestro_flow(acted, AppId(package_name))
    IN append_to_maestro_flow(declared, LaunchApp)

\* create_complete_flow(package_name, actions): the flow it leaves in the
\* controller, which it clears first.
create_complete_flow(package_name, actions) ==
    LET cleared == <<>>
        declared == append_to_maestro_flow(cleared, AppId(package_name))
        launched == append_to_maestro_flow(declared, LaunchApp)
    IN AppendAll(launched, actions)

\* The longest flow text the model builds, in tokens.
MaxFlowLen == 10

\* The snippets the menu of create_and_save_flow can append (choices 1-7).
Wait(seconds) == <<"- wait: " \o seconds, NL>>

Back == <<"- back", NL>>

MenuSnippets ==
    {create_maestro_tap(t, "", <<>>).snippet : t \in FlowTexts \ {""}}
    \cup {create_maestro_tap("", i, <<>>).snippet : i \in FlowIds \ {""}}
    \cup {create_maestro_tap("", "", <<"1", "2">>).snippet}
    \cup {create_maestro_input(t, "") : t \in FlowTexts}
    \cup {create_maestro_swipe("1,2", "1,2").snippet}
    \cup {Wait("2"), Back}

\* The snippets a caller of add_to_maestro_flow and create_complete_flow
\* passes: helper-built ones and hand-written ones.
HelperSnippets ==
    {create_maestro_tap("hi", "", <<>>).snippet,
     create_maestro_input("hi", "btn"),
     AppId("com.app"), LaunchApp, Back}

\* What a flow operation leaves in flow_op: its name, what it returned
\* (ok), whether it raised instead, whether it loaded a flow file, how many
\* times it started the runner and how the runner ended, the message it
\* printed, its arguments, and, inside create_and_save_flow, the number of
\* steps the loop has appended.
Op(op, ok, launched) ==
    [op |-> op, ok |-> ok, launched |-> launched, raised |-> FALSE,
     loaded |-> FALSE, exit |-> "none", message |-> "", args |-> <<>>,
     n |-> 0, calls |-> <<>>, temp |-> NoFile]

\* AndroidController.clear_maestro_flow, called on its own.
CtlClear ==
    /\ controller = "AndroidController" /\ menu = "main"
    /\ maestro_flow' = <<>>
    /\ backing_file' = open_write(backing_file, WRITE_MODE, Header,
                                            os_linesep)
    /\ flow_op' = Op("clear_maestro_flow", TRUE, 0)
    /\ UNCHANGED <<controller, maestro_flow_file, saved_file, menu, os_linesep>>
    /\ UNCHANGED <<sessionVars, deviceVars>>

\* add_to_maestro_flow(yaml_snippet).
CtlAdd ==
    \E yaml_snippet \in HelperSnippets :
        /\ controller = "AndroidController" /\ menu = "main"
        /\ Len(maestro_flow) + Len(yaml_snippet) <= MaxFlowLen
        /\ maestro_flow' = append_to_maestro_flow(maestro_flow, yaml_snippet)
        /\ flow_op' = Op("add_to_maestro_flow", TRUE, 0)
        /\ UNCHANGED <<controller, backing_file, maestro_flow_file, saved_file,
                       menu, os_linesep>>
        /\ UNCHANGED <<sessionVars, deviceVars>>

\* create_complete_flow(package_name, actions), with up to two actions.
CtlCreateCompleteFlow ==
    \E package_name \in FlowPackages,
       actions \in {<<>>} \cup {<<a>> : a \in HelperSnippets}
                   \cup {<<a, b>> : a \in HelperSnippets, b \in HelperSnippets} :
        /\ controller = "AndroidController" /\ menu = "main"
        /\ Len(create_complete_flow(package_name, actions)) <= MaxFlowLen
        /\ maestro_flow' = create_complete_flow(package_name, actions)
        /\ backing_file' = open_write(backing_file, WRITE_MODE, Header,
                                            os_linesep)
        /\ flow_op' = Op("create_complete_flow", TRUE, 0)
        /\ UNCHANGED <<controller, maestro_flow_file, saved_file, menu,
                       os_linesep>>
        /\ UNCHANGED <<sessionVars, deviceVars>>

\* A faulty create_and_save_flow that does not clear the flow before it
\* appends the declaration.
MenuStart_NoClear ==
    \E device_id \in {None, "d1"}, package_name \in FlowPackages :
        /\ controller = "AndroidController" /\ menu = "main"
        /\ device_id # None /\ package_name # ""
        /\ Len(maestro_flow) + Len(AppId(package_name)) + Len(LaunchApp)
               <= MaxFlowLen
        /\ maestro_flow' =
               append_to_maestro_flow(
                   append_to_maestro_flow(maestro_flow, AppId(package_name)),
                   LaunchApp)
        /\ menu' = "create_and_save_flow"
        /\ flow_op' = Op("create_and_save_flow", TRUE, 0)
        /\ UNCHANGED <<controller, backing_file, maestro_flow_file, saved_file,
                       os_linesep>>
        /\ UNCHANGED <<sessionVars, deviceVars>>

\* create_and_save_flow up to its loop: with a device selected and a package
\* name given it clears the flow and appends the declaration and the
\* launch; otherwise it returns False and touches nothing.
MenuStart ==
    \E device_id \in {None, "d1"}, package_name \in FlowPackages :
        /\ controller = "AndroidController" /\ menu = "main"
        /\ IF device_id = None \/ package_name = ""
           THEN /\ flow_op' = Op("create_and_save_flow", FALSE, 0)
                /\ UNCHANGED <<maestro_flow, backing_file, menu>>
           ELSE /\ maestro_flow' =
                       append_to_maestro_flow(
                           append_to_maestro_flow(<<>>, AppId(package_name)),
                           LaunchApp)
                /\ backing_file' = open_write(backing_file, WRITE_MODE, Header,
                                            os_linesep)
                /\ menu' = "create_and_save_flow"
                /\ flow_op' = Op("create_and_save_flow", TRUE, 0)
        /\ UNCHANGED <<controller, maestro_flow_file, saved_file, os_linesep>>
        /\ UNCHANGED <<sessionVars, deviceVars>>

\* Choices 1 to 7 of the loop: the snippet of the choice is appended.
MenuAppend ==
    \E yaml_snippet \in MenuSnippets :
        /\ controller = "AndroidController" /\ menu = "create_and_save_flow"
        /\ Len(maestro_flow) + Len(yaml_snippet) <= MaxFlowLen
        /\ maestro_flow' = append_to_maestro_flow(maestro_flow, yaml_snippet)
        /\ flow_op' = [Op("menu append", TRUE, 0) EXCEPT !.n = flow_op.n + 1]
        /\ UNCHANGED <<controller, backing_file, maestro_flow_file, saved_file,
                       menu, os_linesep>>
        /\ UNCHANGED <<sessionVars, deviceVars>>

\* Choices 1 to 3 with nothing typed, and choice 5 with malformed
\* coordinates: the helper raises ValueError, the loop reports it and goes
\* on; any other number is an invalid option.  Nothing is appended.
MenuRejected ==
    \E helper \in {"create_maestro_tap", "create_maestro_swipe"} :
    /\ controller = "AndroidController" /\ menu = "create_and_save_flow"
    /\ IF helper = "create_maestro_tap"
       THEN create_maestro_tap("", "", <<>>).raised
       ELSE create_maestro_swipe("", "1,2").raised
    /\ flow_op' = [Op("menu append", FALSE, 0)
                       EXCEPT !.n = flow_op.n,
                              !.message = "Please enter a valid number.",
                              !.args = IF helper = "create_maestro_tap"
                                       THEN <<helper, "", "", "">>
                                       ELSE <<helper, "", "1,2">>]
    /\ UNCHANGED <<controller, maestro_flow, backing_file, maestro_flow_file,
                   saved_file, menu, os_linesep>>
    /\ UNCHANGED <<sessionVars, deviceVars>>

\* Choice 8: the flow is written to the path typed, or to
\* maestro_flows/<package>_flow.yaml when none is typed.  A path with no
\* directory part makes os.makedirs("") raise, and nothing is written.
MenuSave ==
    \E flow_file \in {"", "flow.yaml", "flows/a.yaml"} :
        /\ controller = "AndroidController" /\ menu = "create_and_save_flow"
        /\ IF flow_file # "flow.yaml"
           THEN /\ saved_file' = [exists |-> TRUE,
                                 content |-> WriteText(maestro_flow, os_linesep),
                                 saved |-> maestro_flow]
                /\ flow_op' = [Op("save", TRUE, 0) EXCEPT !.n = flow_op.n]
           ELSE /\ flow_op' = [Op("save", FALSE, 0) EXCEPT !.n = flow_op.n,
                                                        !.raised = TRUE]
                /\ UNCHANGED saved_file
        /\ menu' = "main"
        /\ UNCHANGED <<controller, maestro_flow, backing_file,
                       maestro_flow_file, os_linesep>>
        /\ UNCHANGED <<sessionVars, deviceVars>>

\* Choice 0, or Ctrl-C: the loop is left, the flow stays as built.
MenuCancel ==
    /\ controller = "AndroidController" /\ menu = "create_and_save_flow"
    /\ menu' = "main"
    /\ flow_op' = Op("cancel", FALSE, 0)
    /\ UNCHANGED <<controller, maestro_flow, backing_file, maestro_flow_file,
                   saved_file, os_linesep>>
    /\ UNCHANGED <<sessionVars, deviceVars>>

\* os.path.exists(flow_file): of the paths used, only the one a flow was
\* saved to and the flow file of AndroidMCP can exist.
exists(flow_file) ==
    \/ flow_file = "saved" /\ saved_file.exists
    \/ flow_file = "maestro_flow.yaml" /\ maestro_flow_file.exists

\* How a start of the runner can end: exit code 0, another exit code, or
\* the binary cannot be started at all.
RunnerExits == {"zero", "nonzero", "nolaunch"}

\* What a run leaves in flow_op.
Ran(op, r) ==
    [Op(op, r.ok, r.launched) EXCEPT !.raised = r.raised, !.exit = r.exit,
                                     !.message = r.message]

\* A faulty maestro_run_flow that starts the runner a second time when the
\* first run fails.
maestro_run_flow_Retry(flow, exit) ==
    IF flow = <<>>
    THEN [ok |-> FALSE, launched |-> 0, raised |-> FALSE, exit |-> "none",
          message |-> "No Maestro flow to run", calls |-> <<>>,
          temp |-> NoFile]
    ELSE [ok |-> exit = "zero", launched |-> IF exit = "zero" THEN 1 ELSE 2,
          raised |-> FALSE, exit |-> exit, message |-> "Maestro flow failed",
          calls |-> <<"makedirs", "open", "maestro test">>,
          temp |-> open_write(NoFile, "w", flow, os_linesep)]

\* A faulty maestro_run_flow that does not look at the flow before it
\* writes the temporary file and starts the runner.
maestro_run_flow_NoEmptyCheck(flow, exit) ==
    [ok |-> exit = "zero", launched |-> 1, raised |-> FALSE, exit |-> exit,
     message |-> "Maestro flow failed",
     calls |-> <<"makedirs", "open", "maestro test">>,
     temp |-> open_write(NoFile, "w", flow, os_linesep)]

\* AndroidController.maestro_run_flow(device_id) on `flow`: nothing is run
\* for an empty flow; otherwise the flow is written to the temporary file,
\* the runner is started once, and its exit code decides; an exception of
\* subprocess.run is caught and reported as False.  `calls` lists what the
\* call did outside the process, in order, and `temp` is
\* maestro_flows/temp_flow.yaml as the call wrote it.
maestro_run_flow(flow, exit) ==
    IF flow = <<>>
    THEN [ok |-> FALSE, launched |-> 0, raised |-> FALSE, exit |-> "none",
          message |-> "No Maestro flow to run", calls |-> <<>>,
          temp |-> NoFile]
    ELSE [ok |-> exit = "zero", launched |-> 1, raised |-> FALSE,
          exit |-> exit,
          message |-> CASE exit = "zero" -> "Maestro flow ran successfully"
                        [] exit = "nonzero" -> "Maestro flow failed"
                        [] OTHER -> "Error running Maestro flow",
          calls |-> <<"makedirs", "open", "maestro test">>,
          temp |-> open_write(NoFile, "w", flow, os_linesep)]

\* execute_maestro_flow(device_id, flow_file): without a device it returns
\* False; with a flow file it loads it (open raises when the file is
\* missing, before anything is cleared), then it runs the flow.
CtlExecute ==
    \E device_id \in {None, "d1"}, flow_file \in {None, "saved"},
       exit \in RunnerExits :
        /\ controller = "AndroidController" /\ menu = "main"
        /\ IF device_id = None
           THEN /\ flow_op' = [Op("execute_maestro_flow", FALSE, 0)
                                   EXCEPT !.args = <<device_id, flow_file>>]
                /\ UNCHANGED <<maestro_flow, backing_file>>
           ELSE IF flow_file = None
           THEN /\ LET r == maestro_run_flow(maestro_flow, exit) IN
                   flow_op' = [Ran("execute_maestro_flow", r)
                                   EXCEPT !.args = <<device_id, flow_file>>,
                                          !.calls = r.calls, !.temp = r.temp]
                /\ UNCHANGED <<maestro_flow, backing_file>>
           ELSE IF ~exists(flow_file)
           THEN /\ flow_op' = [Op("execute_maestro_flow", FALSE, 0)
                                   EXCEPT !.raised = TRUE,
                                          !.args = <<device_id, flow_file>>]
                /\ UNCHANGED <<maestro_flow, backing_file>>
           ELSE LET loaded == append_to_maestro_flow(
                                  <<>>, ReadText(saved_file.content))
                    r == maestro_run_flow(loaded, exit) IN
                /\ maestro_flow' = loaded
                /\ backing_file' = open_write(backing_file, WRITE_MODE, Header,
                                            os_linesep)
                /\ flow_op' = [Ran("execute_maestro_flow", r)
                                   EXCEPT !.loaded = TRUE,
                                          !.args = <<device_id, flow_file>>,
                                          !.calls = r.calls, !.temp = r.temp]
        /\ UNCHANGED <<controller, maestro_flow_file, saved_file, menu,
                       os_linesep>>
        /\ UNCHANGED <<sessionVars, deviceVars>>

\* controller.load_maestro_flow(flow_file) of the nexuscontroller package:
\* the in-memory flow becomes the contents of the file and True is
\* returned; False is returned, and the flow kept, when the file does not
\* exist.
load_maestro_flow(flow, flow_file) ==
    IF exists(flow_file)
    THEN [ok |-> TRUE, flow |-> ReadText(saved_file.content)]
    ELSE [ok |-> FALSE, flow |-> flow]

\* load_flow_from_file(): the path typed is checked with os.path.exists,
\* then handed to controller.load_maestro_flow.
CtlLoadFromFile ==
    \E flow_file \in {"saved", "missing"} :
        /\ controller = "AndroidController" /\ menu = "main"
        /\ IF exists(flow_file)
           THEN LET r == load_maestro_flow(maestro_flow, flow_file) IN
                /\ maestro_flow' = r.flow
                /\ flow_op' = [Op("load_flow_from_file", r.ok, 0)
                                   EXCEPT !.loaded = r.ok,
                                          !.args = <<flow_file>>]
           ELSE /\ flow_op' = [Op("load_flow_from_file", FALSE, 0)
                                   EXCEPT !.args = <<flow_file>>]
                /\ UNCHANGED maestro_flow
        /\ UNCHANGED <<controller, backing_file, maestro_flow_file,
                       saved_file, menu, os_linesep>>
        /\ UNCHANGED <<sessionVars, deviceVars>>

(***************************************************************************)
(* Part 7: the flow builder of AndroidMCP (nexuscontrol_maestro.py), which *)
(* keeps the flow in maestro_flow.yaml only.                               *)
(***************************************************************************)

\* The longest flow file the model builds, in tokens of its text.
MaxFileLen == 16

\* AndroidMCP.append_to_maestro_flow(yaml_snippet): the file after the
\* append of yaml_snippet + "\n".
mcp_append_to_maestro_flow(file, yaml_snippet, linesep) ==
    File(file.content \o WriteText(yaml_snippet \o <<NL>>, linesep))

\* The snippet maestro_launch_app(package_name) appends.
maestro_launch_app(package_name) ==
    <<"appId: " \o package_name, NL, "---", NL, "- launchApp", NL>>

\* A faulty maestro_tap that appends a tap with no selector when none is
\* given.
maestro_tap_BareTap(text, id, point) ==
    IF text # "" THEN Built(<<"- tapOn:", NL, "    text: \"" \o text \o "\"", NL>>)
    ELSE IF id # "" THEN Built(<<"- tapOn:", NL, "    id: \"" \o id \o "\"", NL>>)
    ELSE Built(<<"- tapOn:", NL>>)

\* maestro_tap(text, id, point), point being "x,y".
maestro_tap(text, id, point) ==
    IF text # "" THEN Built(<<"- tapOn:", NL, "    text: \"" \o text \o "\"", NL>>)
    ELSE IF id # "" THEN Built(<<"- tapOn:", NL, "    id: \"" \o id \o "\"", NL>>)
    ELSE IF point # ""
    THEN IF Len(SplitComma(point)) # 2 THEN ValueError
         ELSE Built(<<"- tapOn:", NL,
                      "    point: \"" \o SplitComma(point)[1] \o ","
                          \o SplitComma(point)[2] \o "\"", NL>>)
    ELSE [raised |-> FALSE, snippet |-> <<>>]

\* maestro_input_text(text, id).
maestro_input_text(text, id) ==
    <<"- inputText:", NL, "    text: \"" \o text \o "\"", NL>>
    \o (IF id # "" THEN <<"    id: \"" \o id \o "\"", NL>> ELSE <<>>)

\* maestro_swipe(start, end).
maestro_swipe(start, end) == create_maestro_swipe(start, end)

\* maestro_assert_visible(text, id).
maestro_assert_visible(text, id) ==
    IF text # "" THEN <<"- assertVisible:", NL, "    text: \"" \o text \o "\"", NL>>
    ELSE IF id # "" THEN <<"- assertVisible:", NL, "    id: \"" \o id \o "\"", NL>>
    ELSE <<>>

\* maestro_wait(seconds) and maestro_back().
maestro_wait(seconds) == <<"- wait: " \o seconds, NL>>

maestro_back == <<"- pressBack", NL>>

\* One call of a builder method: `built` is what the method makes of its
\* arguments; a snippet is appended unless the method raised or returned
\* False before its append.
McpBuild(op, args, built) ==
    /\ controller = "AndroidMCP"
    /\ maestro_flow_file.exists
    /\ Len(ReadText(maestro_flow_file.content)) + Len(built.snippet) + 1
           <= MaxFileLen
    /\ IF built.raised \/ built.snippet = <<>>
       THEN /\ flow_op' = [Op(op, FALSE, 0) EXCEPT !.raised = built.raised,
                                                   !.args = args]
            /\ UNCHANGED maestro_flow_file
       ELSE /\ maestro_flow_file' =
                   mcp_append_to_maestro_flow(maestro_flow_file, built.snippet,
                                              os_linesep)
            /\ flow_op' = [Op(op, TRUE, 0) EXCEPT !.args = args]
    /\ UNCHANGED <<controller, maestro_flow, backing_file, saved_file, menu,
                   os_linesep>>
    /\ UNCHANGED <<sessionVars, deviceVars>>

\* A faulty clear that opens the flow file in append mode.
McpClear_AppendMode ==
    /\ controller = "AndroidMCP"
    /\ maestro_flow_file' = open_write(maestro_flow_file, "a", Header,
                                       os_linesep)
    /\ flow_op' = Op("clear_maestro_flow", TRUE, 0)
    /\ UNCHANGED <<controller, maestro_flow, backing_file, saved_file, menu,
                   os_linesep>>
    /\ UNCHANGED <<sessionVars, deviceVars>>

\* AndroidMCP.clear_maestro_flow().
McpClear ==
    /\ controller = "AndroidMCP"
    /\ maestro_flow_file' = open_write(maestro_flow_file, "w", Header,
                                       os_linesep)
    /\ flow_op' = Op("clear_maestro_flow", TRUE, 0)
    /\ UNCHANGED <<controller, maestro_flow, backing_file, saved_file, menu,
                   os_linesep>>
    /\ UNCHANGED <<sessionVars, deviceVars>>

McpLaunchApp ==
    \E package_name \in FlowPackages :
        McpBuild("maestro_launch_app", <<package_name>>,
                 Built(maestro_launch_app(package_name)))

McpTap ==
    \E text \in FlowTexts, id \in FlowIds, point \in PointStrings \cup {"1"} :
        McpBuild("maestro_tap", <<text, id, point>>,
                 maestro_tap(text, id, point))

McpInputText ==
    \E text \in FlowTexts, id \in FlowIds :
        McpBuild("maestro_input_text", <<text, id>>,
                 Built(maestro_input_text(text, id)))

McpSwipe ==
    \E start \in PointStrings, end \in {"1,2"} :
        McpBuild("maestro_swipe", <<start, end>>,
                 maestro_swipe(start, end))

McpAssertVisible ==
    \E text \in FlowTexts, id \in FlowIds :
        McpBuild("maestro_assert_visible", <<text, id>>,
                 Built(maestro_assert_visible(text, id)))

McpWait ==
    McpBuild("maestro_wait", <<"2">>, Built(maestro_wait("2")))

McpBack ==
    McpBuild("maestro_back", <<>>, Built(maestro_back))

\* AndroidMCP.maestro_run_flow: the runner is started once on the flow
\* file whatever it holds, with check=True; only CalledProcessError (a
\* non-zero exit) is caught, so a runner that cannot be started raises.
mcp_maestro_run_flow(exit) ==
    [ok |-> exit = "zero", launched |-> 1, raised |-> exit = "nolaunch",
     exit |-> exit,
     message |-> CASE exit = "zero" -> "Maestro flow executed successfully"
                   [] exit = "nonzero" -> "Failed to run Maestro flow"
                   [] OTHER -> ""]

McpRunFlow ==
    \E exit \in RunnerExits :
        /\ controller = "AndroidMCP"
        /\ flow_op' = Ran("maestro_run_flow", mcp_maestro_run_flow(exit))
        /\ UNCHANGED <<controller, maestro_flow, backing_file,
                       maestro_flow_file, saved_file, menu, os_linesep>>
        /\ UNCHANGED <<sessionVars, deviceVars>>

\* A faulty maestro_run_recorded_flow that does not look for the file
\* before it starts the runner.
maestro_run_recorded_flow_NoCheck(found, exit) ==
    [ok |-> exit = "zero", launched |-> 1, raised |-> exit = "nolaunch",
     exit |-> exit,
     message |-> IF exit = "zero"
                 THEN "Recorded Maestro flow executed successfully"
                 ELSE "Failed to run recorded Maestro flow"]

\* AndroidMCP.maestro_run_recorded_flow(flow_file): a path that does not
\* exist is reported and nothing is run; otherwise the runner is started
\* once with check=True, and only CalledProcessError is caught.
maestro_run_recorded_flow(found, exit) ==
    IF ~found
    THEN [ok |-> FALSE, launched |-> 0, raised |-> FALSE, exit |-> "none",
          message |-> "Flow file not found"]
    ELSE [ok |-> exit = "zero", launched |-> 1, raised |-> exit = "nolaunch",
          exit |-> exit,
          message |-> CASE exit = "zero" ->
                               "Recorded Maestro flow executed successfully"
                        [] exit = "nonzero" ->
                               "Failed to run recorded Maestro flow"
                        [] OTHER -> ""]

McpRunRecordedFlow ==
    \E flow_file \in {"maestro_flow.yaml", "missing.yaml"},
       exit \in RunnerExits :
        /\ controller = "AndroidMCP"
        /\ flow_op' = [Ran("maestro_run_recorded_flow",
                           maestro_run_recorded_flow(exists(flow_file), exit))
                           EXCEPT !.args = <<flow_file>>]
        /\ UNCHANGED <<controller, maestro_flow, backing_file,
                       maestro_flow_file, saved_file, menu, os_linesep>>
        /\ UNCHANGED <<sessionVars, deviceVars>>

\* run_maestro_test(flow_file) of generate_report.py: the runner is started
\* once, outside any try, and "success" is returncode == 0.
run_maestro_test(exit) ==
    [ok |-> exit = "zero", launched |-> 1, raised |-> exit = "nolaunch",
     exit |-> exit, message |-> ""]

RunMaestroTest ==
    \E flow_file \in {"maestro_flow.yaml"}, exit \in RunnerExits :
        /\ controller = "AndroidMCP"
        /\ flow_op' = [Ran("run_maestro_test", run_maestro_test(exit))
                           EXCEPT !.args = <<flow_file>>]
        /\ UNCHANGED <<controller, maestro_flow, backing_file,
                       maestro_flow_file, saved_file, menu, os_linesep>>
        /\ UNCHANGED <<sessionVars, deviceVars>>

(***************************************************************************)
(* Part 7b: the device registry, get_devices and get_device_info of        *)
(* AndroidController and AndroidMCP.                                       *)
(***************************************************************************)

\* What is kept of the output of a property query sent to device_id: the
\* value the device reports, or `default` when the device does not answer
\* (check=False, so nothing is raised): the empty output itself for a
\* getprop, the fallback of the pattern search for the others.
Query(device_id, value, default) ==
    IF Reachable(device_id) THEN value ELSE default

\* The battery level AndroidController can read.  Its query is an argument
\* list run with shell=True: on Windows the list is joined and the pipe
\* works; elsewhere only `adb` is run and its usage text is parsed, which
\* gives "Unknown" or a piece of that text.  os.linesep is "\r\n" on
\* Windows only.
BatteryLevels(device_id) ==
    IF os_linesep = <<CR, NL>> THEN {Query(device_id, "80", "Unknown")}
    ELSE {"Unknown", "usage"}

\* The bags a full set of queries can give now, and the number of queries.
FreshInfos(device_id) ==
    IF controller = "AndroidController"
    THEN {[model |-> Query(device_id, "Pixel", ""),
           android_version |-> Query(device_id, props[device_id], ""),
           battery_level |-> b] : b \in BatteryLevels(device_id)}
    ELSE {[model |-> Query(device_id, "Pixel", ""),
           manufacturer |-> Query(device_id, "Google", ""),
           android_version |-> Query(device_id, props[device_id], ""),
           api_level |-> Query(device_id, "3" \o props[device_id], ""),
           battery_level |-> Query(device_id, "80", "Unknown"),
           battery_status |-> Query(device_id, "Charging", "Unknown"),
           screen_resolution |-> Query(device_id, "1080x1920", "Unknown"),
           ip_address |-> Query(device_id, "10.0.0.2",
                                "Not connected to WiFi")]}

NumQueries == IF controller = "AndroidController" THEN 3 ELSE 7

\* What a registry call leaves in dev_op: its name and arguments, the
\* number of bridge invocations it made, and what it returned.
DevOp(op, device_id, force_refresh, queries, info, listed) ==
    [op |-> op, device_id |-> device_id, force_refresh |-> force_refresh,
     queries |-> queries, info |-> info, listed |-> listed]

\* A faulty get_device_info that keeps the Android version of the entry it
\* refreshes.
get_device_info_Merge(cache, device_id, force_refresh, fresh) ==
    IF device_id \in DOMAIN cache /\ ~force_refresh
    THEN [cache |-> cache, info |-> cache[device_id], queries |-> 0]
    ELSE LET info == IF device_id \in DOMAIN cache
                     THEN [fresh EXCEPT !.android_version =
                                            cache[device_id].android_version]
                     ELSE fresh
         IN [cache |-> [d \in DOMAIN cache \cup {device_id} |->
                          IF d = device_id THEN info ELSE cache[d]],
             info |-> info, queries |-> NumQueries]

\* A faulty get_device_info that never looks in the cache.
get_device_info_NoCache(cache, device_id, force_refresh, fresh) ==
    [cache |-> [d \in DOMAIN cache \cup {device_id} |->
                  IF d = device_id THEN fresh ELSE cache[d]],
     info |-> fresh, queries |-> NumQueries]

\* get_device_info(device_id, force_refresh), `fresh` being the bag its
\* queries would build: the cached bag is returned when there is one and
\* no refresh is forced; otherwise the fresh bag is stored and returned.
get_device_info(cache, device_id, force_refresh, fresh) ==
    IF device_id \in DOMAIN cache /\ ~force_refresh
    THEN [cache |-> cache, info |-> cache[device_id], queries |-> 0]
    ELSE [cache |-> [d \in DOMAIN cache \cup {device_id} |->
                       IF d = device_id THEN fresh ELSE cache[d]],
          info |-> fresh, queries |-> NumQueries]

GetDeviceInfo ==
    \E device_id \in DeviceIds, force_refresh \in BOOLEAN :
        \E fresh \in FreshInfos(device_id) :
            LET r == get_device_info(device_cache, device_id, force_refresh,
                                     fresh) IN
            /\ device_cache' = r.cache
            /\ dev_op' = DevOp("get_device_info", device_id, force_refresh,
                               r.queries, r.info, <<>>)
            /\ UNCHANGED <<bridge, props, android_mcp, proc, adapter,
                   current_device, devices, srv_current_device, last,
                   flowVars, rec>>

GetDevices ==
    /\ dev_op' = DevOp("get_devices", None, FALSE, 1, [none |-> ""], get_devices)
    /\ UNCHANGED <<bridge, props, device_cache, android_mcp, proc, adapter,
                   current_device, devices, srv_current_device, last,
                   flowVars, rec>>

\* The environment: a device is attached, detached, authorized, goes
\* offline, or is updated to another Android version.
DevBridgeChange ==
    \E d \in DeviceIds, st \in Statuses \cup {"offline"} :
        /\ st # bridge[d]
        /\ bridge' = [bridge EXCEPT ![d] = st]
        /\ UNCHANGED <<props, device_cache, dev_op, android_mcp, proc, adapter,
                   current_device, devices, srv_current_device, last,
                   flowVars, rec>>

PropChange ==
    \E d \in DeviceIds, v \in {"13", "14"} :
        /\ v # props[d]
        /\ props' = [props EXCEPT ![d] = v]
        /\ UNCHANGED <<bridge, device_cache, dev_op, android_mcp, proc, adapter,
                   current_device, devices, srv_current_device, last,
                   flowVars, rec>>

NoDevOp == DevOp("none", None, FALSE, 0, [none |-> ""], <<>>)

(***************************************************************************)
(* Part 7c: construction of a controller and AndroidMCP.record_screen      *)
(* (nexuscontrol_maestro.py, nexuscontrol_advanced.py, controller.py).     *)
(* record_screen is followed step by step, next to the thread it starts.   *)
(***************************************************************************)

\* The longest recording followed, in seconds.
MaxDuration == 2

\* What the menu passes as duration: int(input(...)) of any integer.
Durations == -1..MaxDuration

\* No record_screen call was made yet.
NoRec ==
    [pc |-> "idle", device_id |-> None, duration |-> 0, events |-> <<>>,
     thread |-> "none"]

\* A record_screen that sends the stop signal after the first tick.
record_screen_StopEarly(duration) ==
    <<"start">> \o (IF duration > 0 THEN <<"tick">> ELSE <<>>)
    \o <<"stop", "grace", "pull", "delete">>

\* record_screen(device_id, duration): what the calling thread does, in
\* program order: start the thread, one sleep(1) per element of
\* range(duration), killall screenrecord, sleep(2), pull, rm.
record_screen(duration) ==
    <<"start">> \o [i \in 1..(IF duration > 0 THEN duration ELSE 0) |-> "tick"]
    \o <<"stop", "grace", "pull", "delete">>

\* __init__ of AndroidController and of AndroidMCP.  check_adb_installed of
\* AndroidMCP exits with code 1 when `adb version` cannot be run, that of
\* AndroidController returns False to a constructor that does not look at
\* it.  AndroidMCP then looks for maestro and exits when the user declines
\* to go on without it.  Both end with clear_maestro_flow().
Construct ==
    \E cls \in {"AndroidController", "AndroidMCP"},
       adb \in {"installed", "FileNotFoundError"},
       maestro \in {"installed", "continue", "quit"} :
        LET exits == cls = "AndroidMCP"
                     /\ (adb # "installed" \/ maestro = "quit") IN
        /\ proc = "running" /\ rec.pc # "running" /\ menu = "main"
        /\ cls = "AndroidController" \/ adb # "installed" => maestro = "installed"
        /\ dev_op' = DevOp("__init__", None, FALSE, 1,
                           [class |-> cls, adb |-> adb], <<>>)
        /\ proc' = IF exits THEN "exited" ELSE proc
        /\ controller' = IF exits THEN controller ELSE cls
        /\ device_cache' = IF exits THEN device_cache ELSE <<>>
        /\ maestro_flow' = IF exits \/ cls = "AndroidMCP" THEN maestro_flow
                           ELSE <<>>
        /\ backing_file' = IF exits \/ cls = "AndroidMCP" THEN backing_file
                           ELSE open_write(backing_file, WRITE_MODE, Header,
                                           os_linesep)
        /\ maestro_flow_file' = IF exits \/ cls = "AndroidController"
                                THEN maestro_flow_file
                                ELSE open_write(maestro_flow_file, "w", Header,
                                                os_linesep)
        /\ UNCHANGED <<bridge, android_mcp, adapter, current_device, devices,
                       srv_current_device, last, saved_file, menu, os_linesep,
                       flow_op, props, rec>>

\* record_screen is called: the thread is created and started.
RecordScreen ==
    \E device_id \in DeviceIds, duration \in Durations :
        /\ proc = "running" /\ rec.pc # "running"
        /\ rec' = [pc |-> "running", device_id |-> device_id,
                   duration |-> duration, events |-> <<"start">>,
                   thread |-> "started"]
        /\ UNCHANGED <<sessionVars, flowVars, device_cache, props, dev_op>>

\* A calling thread that joins the recording thread before the pull.
RecordStep_Joined ==
    /\ proc = "running" /\ rec.pc = "running"
    /\ LET step == record_screen(rec.duration)[Len(rec.events) + 1] IN
       /\ step = "pull" => rec.thread = "finished"
       /\ \E ok \in IF step = "pull" /\ Reachable(rec.device_id) THEN BOOLEAN
                    ELSE {step # "pull"} :
              rec' = [rec EXCEPT !.events = Append(@, step),
                                 !.pc = IF ~ok THEN "raised"
                                        ELSE IF step = "delete" THEN "returned"
                                        ELSE @]
    /\ UNCHANGED <<sessionVars, flowVars, device_cache, props, dev_op>>

\* The calling thread takes its next step.  The pull runs with check=True
\* and raises when it fails; the stop and the rm run with check=False.
RecordStep ==
    /\ proc = "running" /\ rec.pc = "running"
    /\ LET step == record_screen(rec.duration)[Len(rec.events) + 1] IN
       \E ok \in IF step = "pull" /\ Reachable(rec.device_id) THEN BOOLEAN
                 ELSE {step # "pull"} :
           rec' = [rec EXCEPT !.events = Append(@, step),
                              !.pc = IF ~ok THEN "raised"
                                     ELSE IF Len(rec.events) + 1
                                             = Len(record_screen(rec.duration))
                                          THEN "returned" ELSE @]
    /\ UNCHANGED <<sessionVars, flowVars, device_cache, props, dev_op>>

\* The recording thread: it invokes `adb shell screenrecord` and, whenever
\* that invocation returns (killed, cut off, or at its time limit), ends.
\* Nothing in record_screen waits for it.
RecordThread ==
    /\ proc = "running" /\ rec.thread \in {"started", "running"}
    /\ rec' = [rec EXCEPT !.thread = IF @ = "started" THEN "running"
                                     ELSE "finished"]
    /\ UNCHANGED <<sessionVars, flowVars, device_cache, props, dev_op>>

(***************************************************************************)
(* Part 8: the specifications.                                             *)
(***************************************************************************)

NoOp == Op("none", TRUE, 0)

NeverSaved == [exists |-> FALSE, content |-> <<>>, saved |-> <<>>]

\* The device session: the adapter and the FastMCP server of a process just
\* started, every device attached and authorized.  The flow builder is left
\* as its constructor leaves it.
SessionInit ==
    /\ bridge = [d \in DeviceIds |-> "device"]
    /\ android_mcp \in {"instance", "None"}
    /\ proc = "running"
    /\ adapter = FALSE
    /\ current_device = None
    /\ devices = <<>>
    /\ srv_current_device = None
    /\ last = NoRequest
    /\ controller = "AndroidController"
    /\ maestro_flow = <<>>
    /\ os_linesep = <<NL>>
    /\ backing_file = File(WriteText(Header, <<NL>>))
    /\ maestro_flow_file = NoFile
    /\ saved_file = NeverSaved
    /\ menu = "main"
    /\ flow_op = NoOp
    /\ device_cache = <<>>
    /\ props = [d \in DeviceIds |-> "13"]
    /\ dev_op = NoDevOp
    /\ rec = NoRec

SessionNext ==
    \/ ReqExit
    \/ ReqUseDevice
    \/ ReqListDevices
    \/ ReqTakeScreenshot
    \/ ReqListApps
    \/ ReqLaunchApp
    \/ ReqTerminateApp
    \/ ReqGetScreenSize
    \/ ReqClick
    \/ ReqSwipe
    \/ ReqTypeKeys
    \/ ReqPressButton
    \/ ReqOpenUrl
    \/ ReqListElements
    \/ ReqUnknownMethod
    \/ ReqMalformed
    \/ ToolUseDevice
    \/ ToolTakeScreenshot
    \/ ToolListApps
    \/ ToolLaunchApp
    \/ ToolTerminateApp
    \/ ToolGetScreenSize
    \/ ToolClick
    \/ ToolSwipe
    \/ ToolTypeKeys
    \/ ToolPressButton
    \/ ToolOpenUrl
    \/ ToolListElements
    \/ BridgeChange

SessionSpec == SessionInit /\ [][SessionNext]_vars

\* One of the two controllers, just constructed (its constructor clears
\* the flow and starts with an empty device cache), on a platform with
\* either line ending, every device attached and authorized.  No device
\* session is in use.
FlowInit ==
    /\ controller \in {"AndroidController", "AndroidMCP"}
    /\ os_linesep \in {<<NL>>, <<CR, NL>>}
    /\ maestro_flow = <<>>
    /\ backing_file = IF controller = "AndroidController"
                      THEN File(WriteText(Header, os_linesep)) ELSE NoFile
    /\ maestro_flow_file = IF controller = "AndroidMCP"
                           THEN File(WriteText(Header, os_linesep)) ELSE NoFile
    /\ saved_file = NeverSaved
    /\ menu = "main"
    /\ flow_op = NoOp
    /\ bridge = [d \in DeviceIds |-> "device"]
    /\ android_mcp = "instance"
    /\ proc = "running"
    /\ adapter = FALSE
    /\ current_device = None
    /\ devices = <<>>
    /\ srv_current_device = None
    /\ last = NoRequest
    /\ device_cache = <<>>
    /\ props = [d \in DeviceIds |-> "13"]
    /\ dev_op = NoDevOp
    /\ rec = NoRec

FlowNext ==
    \/ CtlClear
    \/ CtlAdd
    \/ CtlCreateCompleteFlow
    \/ MenuStart
    \/ MenuAppend
    \/ MenuRejected
    \/ MenuSave
    \/ MenuCancel
    \/ CtlExecute
    \/ CtlLoadFromFile
    \/ McpClear
    \/ McpLaunchApp
    \/ McpTap
    \/ McpInputText
    \/ McpSwipe
    \/ McpAssertVisible
    \/ McpWait
    \/ McpBack
    \/ McpRunFlow
    \/ McpRunRecordedFlow
    \/ RunMaestroTest

FlowSpec == FlowInit /\ [][FlowNext]_vars

\* The device registry of a controller just constructed, and what changes
\* around it.
DeviceNext ==
    \/ GetDevices
    \/ GetDeviceInfo
    \/ DevBridgeChange
    \/ PropChange

DeviceSpec == FlowInit /\ [][DeviceNext]_vars

\* Controllers being constructed and recording the screen of devices that
\* come and go.
RecordNext ==
    \/ Construct
    \/ RecordScreen
    \/ RecordStep
    \/ RecordThread
    \/ DevBridgeChange

RecordSpec == FlowInit /\ [][RecordNext]_vars

(***************************************************************************)
(* Part 9: the device-session properties, checked under SessionSpec.       *)
(***************************************************************************)

UseDeviceMethods == {"mcp.mobile_use_device", "use_device"}

SessionOps == SessionMethods \cup SessionTools

\* A step that handles a request: every request rewrites `last`, and the
\* two steps that leave it alone change the bridge or end the process.
RequestStep == bridge' = bridge /\ proc' = proc

\* The commands a request sent to a device (`adb devices` names none).
DeviceCmds(cmds) == SelectSeq(cmds, LAMBDA c : c.dev # None)

\* use_device(id) for an id that is in no list the call consults: not in the
\* bridge's list and, for the adapter, not in its cached list either.
UnknownDeviceCall ==
    /\ RequestStep
    /\ last'.method \in UseDeviceMethods
    /\ ~InList(last'.arg, get_devices)
    /\ last'.impl = "adapter" => ~InList(last'.arg, devices)

UnboundSessionOp == last.method \in SessionOps /\ ~Truthy(last.prior)

C3_CommandsTargetAuthorized ==
    last.method \in SessionOps =>
        \A i \in 1..Len(DeviceCmds(last.cmds)) :
            /\ DeviceCmds(last.cmds)[i].dev = last.prior
            /\ DeviceCmds(last.cmds)[i].status = "device"

\* C4: use_device binds an identifier only if the bridge reports it as
\* authorized at the time of the call.
C4_ValidatesAgainstBridge ==
    [][RequestStep /\ last'.method \in UseDeviceMethods /\ last'.success
          => InList(last'.arg, get_devices)]_vars

\* C5: the adapter is constructed by the first request that parses, by no
\* later one, and kept; a
\* binding changes only in a use_device call that succeeds, to the device
\* asked for; every request works on the binding left by the request
\* before it, and sends its device commands to that device.
C5_OneAdapterOneBinding ==
    [][/\ adapter => adapter'
       /\ RequestStep /\ last'.impl = "adapter" =>
              /\ last'.init = (~adapter /\ adapter')
              /\ last'.prior = current_device
       /\ RequestStep /\ last'.impl = "server" =>
              last'.prior = srv_current_device
       /\ RequestStep /\ last'.method \in SessionOps =>
              \A i \in 1..Len(DeviceCmds(last'.cmds)) :
                  DeviceCmds(last'.cmds)[i].dev = last'.prior
       /\ current_device' # current_device =>
              /\ last'.impl = "adapter"
              /\ last'.method = "mcp.mobile_use_device"
              /\ last'.success /\ current_device' = last'.arg
       /\ srv_current_device' # srv_current_device =>
              /\ last'.impl = "server" /\ last'.method = "use_device"
              /\ last'.success /\ srv_current_device' = last'.arg]_vars

\* A later request of the adapter tapped on the device bound earlier.
C5_Witness ==
    /\ adapter /\ last.impl = "adapter" /\ ~last.init
    /\ last.method = "mcp.mobile_click_on_screen_at_coordinates"
    /\ last.success /\ last.prior = "d2" /\ current_device = "d2"
    /\ Len(last.cmds) = 1 /\ last.cmds[1].dev = "d2"

(***************************************************************************)
(* Part 10: the flow properties, checked under FlowSpec.                   *)
(***************************************************************************)

\* The first lines of the steps of a flow text.
DeclTokens == {"appId: " \o p : p \in FlowPackages}

InteractionTokens ==
    {"- tapOn:", "- inputText:", "- swipe:", "- wait: 2", "- back",
     "- pressBack", "- assertVisible:"}

StepTokens == DeclTokens \cup {"- launchApp"} \cup InteractionTokens

\* The steps of a flow text, in order, each named by its first line.
Steps(text) == SelectSeq(text, LAMBDA tok : tok \in StepTokens)

DeclCount(text) == Len(SelectSeq(text, LAMBDA tok : tok \in DeclTokens))

HasInteraction(text) == \E i \in 1..Len(text) : text[i] \in InteractionTokens

\* The flow starts with a declaration followed by a launch.
DeclaredAndLaunched(text) ==
    /\ Len(Steps(text)) >= 2
    /\ Steps(text)[1] \in DeclTokens
    /\ Steps(text)[2] = "- launchApp"

IsPrefix(s, t) == Len(s) <= Len(t) /\ SubSeq(t, 1, Len(s)) = s

\* The text of the flow the controller in use holds: in memory for
\* AndroidController, in maestro_flow.yaml (after the header) for AndroidMCP.
FlowText ==
    IF controller = "AndroidController" THEN maestro_flow
    ELSE ReadText(maestro_flow_file.content)

C7_FileMirrorsFlow ==
    controller = "AndroidController" =>
        /\ backing_file.exists
        /\ backing_file.content = WriteText(Header \o maestro_flow, os_linesep)

\* C8 (as amended): a flow built by create_complete_flow, or in the loop of
\* create_and_save_flow and saved by it, starts with the declaration
\* followed by the launch; the append methods themselves order nothing.
C8_BuiltFlowsStartDeclared ==
    /\ flow_op.op = "create_complete_flow" \/ menu = "create_and_save_flow"
           => DeclaredAndLaunched(maestro_flow)
    /\ flow_op.op = "save" /\ flow_op.ok
           => DeclaredAndLaunched(ReadText(saved_file.content))

\* C8 (as stated): whatever flow either builder holds, if it has an
\* app-interacting step then it starts with the declaration followed by the
\* launch.
C8_AnyFlowStartsDeclared ==
    HasInteraction(FlowText) => DeclaredAndLaunched(FlowText)

\* create_complete_flow was given actions, which follow the two first steps.
C8_Witness ==
    /\ flow_op.op = "create_complete_flow"
    /\ HasInteraction(maestro_flow)
    /\ Len(Steps(maestro_flow)) = 4

\* C9 (as amended): while create_and_save_flow builds a flow, and in the
\* file it saves, there is exactly one app declaration; the append methods
\* themselves accept a second one.
C9_MenuFlowDeclaresOnce ==
    /\ menu = "create_and_save_flow" => DeclCount(maestro_flow) = 1
    /\ flow_op.op = "save" /\ flow_op.ok
           => DeclCount(ReadText(saved_file.content)) = 1

\* C9 (as stated): a flow holds at most one app declaration.
C9_AtMostOneDeclaration == DeclCount(FlowText) <= 1

\* create_and_save_flow was run a second time (the first run saved a file)
\* and has appended a step of its own to the flow it started afresh.
C9_Witness ==
    /\ menu = "create_and_save_flow"
    /\ flow_op.op = "menu append" /\ flow_op.ok
    /\ saved_file.exists
    /\ DeclCount(maestro_flow) = 1

AppendOps ==
    {"add_to_maestro_flow", "menu append", "maestro_launch_app", "maestro_tap",
     "maestro_input_text", "maestro_swipe", "maestro_assert_visible",
     "maestro_wait", "maestro_back"}

ClearingOps ==
    {"clear_maestro_flow", "create_complete_flow", "create_and_save_flow",
     "execute_maestro_flow", "load_flow_from_file"}

\* C10: an append keeps the flow it found as a prefix of the flow it
\* leaves, in memory and in the flow file; a flow loses its prefix only in
\* an operation that clears or loads; and the saved file lists the steps
\* in the order of the in-memory flow.
C10_AppendOnly ==
    [][/\ flow_op'.op \in AppendOps =>
              /\ IsPrefix(maestro_flow, maestro_flow')
              /\ IsPrefix(maestro_flow_file.content, maestro_flow_file'.content)
       /\ ~IsPrefix(maestro_flow, maestro_flow') => flow_op'.op \in ClearingOps
       /\ ~IsPrefix(maestro_flow_file.content, maestro_flow_file'.content)
              => flow_op'.op \in ClearingOps
       /\ flow_op'.op = "save" /\ flow_op'.ok =>
              Steps(ReadText(saved_file'.content)) = Steps(maestro_flow)]_vars

\* Three appends in a row left their steps in the order of the calls.
C10_Witness ==
    /\ flow_op.op = "add_to_maestro_flow"
    /\ Steps(maestro_flow) = <<"appId: com.app", "- launchApp", "- tapOn:">>

\* The lines of a file, without their line breaks.
FileLines(content) == SelectSeq(content, LAMBDA tok : tok \notin {NL, CR})

\* The lines that follow the first separator line.
AfterSeparator(lines) ==
    IF \E i \in 1..Len(lines) : lines[i] = "---"
    THEN LET sep == CHOOSE i \in 1..Len(lines) :
                        /\ lines[i] = "---"
                        /\ \A j \in 1..(i - 1) : lines[j] # "---"
         IN SubSeq(lines, sep + 1, Len(lines))
    ELSE <<>>

\* create_and_save_flow saved the flow it built.
MenuSaved == flow_op.op = "save" /\ flow_op.ok

\* C11 (as amended): the file saved after a declaration, a launch and N
\* appended steps holds N+2 steps; its first line is `appId: <pkg>`, its
\* second the separator, and the first line after the separator is
\* `- launchApp`.
C11_SavedFileLayout ==
    MenuSaved =>
        LET lines == FileLines(saved_file.content) IN
        /\ Len(Steps(ReadText(saved_file.content))) = flow_op.n + 2
        /\ lines[1] \in DeclTokens \ {"appId: "}
        /\ lines[2] = "---"
        /\ AfterSeparator(lines)[1] = "- launchApp"

\* C11 (as stated): the saved file holds N+2 steps and the first two lines
\* after the separator are `appId: <pkg>` and `- launchApp`.
C11_DeclarationAfterSeparator ==
    MenuSaved =>
        LET after == AfterSeparator(FileLines(saved_file.content)) IN
        /\ Len(Steps(ReadText(saved_file.content))) = flow_op.n + 2
        /\ Len(after) >= 2
        /\ after[1] \in DeclTokens
        /\ after[2] = "- launchApp"

\* A flow with two appended steps was saved.
C11_Witness ==
    /\ MenuSaved /\ flow_op.n = 2
    /\ Len(Steps(ReadText(saved_file.content))) = 4

\* The file the controller in use keeps its flow in.
BackingFile ==
    IF controller = "AndroidController" THEN backing_file
    ELSE maestro_flow_file

LoadStep ==
    /\ flow_op' # flow_op
    /\ \/ flow_op'.op = "load_flow_from_file"
       \/ /\ flow_op'.op = "execute_maestro_flow"
          /\ flow_op'.args[1] # None /\ flow_op'.args[2] # None

\* The path a load step was given.
LoadedPath == flow_op'.args[Len(flow_op'.args)]

\* C13: a load replaces the in-memory flow with the contents of the file
\* and succeeds; when the file does not exist it fails without raising and
\* leaves the in-memory flow as it was.
C13_LoadReplacesOrFails ==
    [][LoadStep =>
          IF exists(LoadedPath)
          THEN /\ flow_op'.loaded /\ ~flow_op'.raised
               /\ maestro_flow' = ReadText(saved_file.content)
          ELSE /\ ~flow_op'.loaded /\ ~flow_op'.raised
               /\ maestro_flow' = maestro_flow]_vars

\* What the caller of a run sees: the value returned, whether it raised,
\* and the message printed.
Outcome(r) == <<r.ok, r.raised, r.message>>

\* C17: maestro_run_recorded_flow on a path that does not exist returns
\* False with the message "Flow file not found", an outcome no run of the
\* runner can have, and starts no process.
C17_MissingFileFailsFast ==
    flow_op.op = "maestro_run_recorded_flow" /\ ~exists(flow_op.args[1]) =>
        /\ ~flow_op.ok /\ ~flow_op.raised
        /\ flow_op.launched = 0
        /\ flow_op.message = "Flow file not found"
        /\ \A exit \in RunnerExits :
               Outcome(flow_op) # Outcome(maestro_run_recorded_flow(TRUE, exit))

\* maestro_run_recorded_flow was called on a path that does not exist,
\* after steps had been appended to the flow file that does.
C17_Witness ==
    /\ flow_op.op = "maestro_run_recorded_flow"
    /\ flow_op.args = <<"missing.yaml">>
    /\ exists("maestro_flow.yaml")
    /\ Len(Steps(FlowText)) >= 2

\* The operations that hand a flow to the runner.
RunOps ==
    {"execute_maestro_flow", "maestro_run_flow", "maestro_run_recorded_flow",
     "run_maestro_test"}

\* A run that started the runner.
RunnerStarted == flow_op.op \in RunOps /\ flow_op.launched >= 1

\* C18: a run reports success exactly when the runner exits with code 0; a
\* non-zero exit and a runner that cannot be started are both reported to
\* the caller as failure.
C18_SuccessIffExitZero ==
    RunnerStarted =>
        /\ flow_op.ok <=> flow_op.exit = "zero"
        /\ ~flow_op.raised

\* C19: a run starts the runner at most once, whether it succeeds or
\* fails, and a run that fails is reported as failed by that one call.
C19_NoRetry ==
    flow_op.op \in RunOps =>
        /\ flow_op.launched <= 1
        /\ flow_op.launched = 1 /\ flow_op.exit # "zero" => ~flow_op.ok

\* A run of a flow of three steps or more failed with a non-zero exit code
\* after one start of the runner.
C19_Witness ==
    /\ flow_op.op = "execute_maestro_flow"
    /\ flow_op.exit = "nonzero" /\ ~flow_op.ok
    /\ flow_op.launched = 1
    /\ Len(Steps(maestro_flow)) >= 3

\* A tap or an assert-visible was asked for with no text, id or point.
NoSelectorCall ==
    \/ /\ flow_op'.op \in {"maestro_tap", "maestro_assert_visible"}
       /\ \A i \in 1..Len(flow_op'.args) : flow_op'.args[i] = ""
    \/ /\ flow_op'.op = "menu append"
       /\ flow_op'.args = <<"create_maestro_tap", "", "", "">>

\* C20: a tap or an assert-visible asked for with none of text, id and
\* point reports failure and leaves the flow, in memory and in its file,
\* as it was.
C20_NoSelectorRejected ==
    [][NoSelectorCall =>
          /\ ~flow_op'.ok
          /\ UNCHANGED <<maestro_flow, backing_file, maestro_flow_file,
                         saved_file>>]_vars

\* maestro_tap was refused for want of a selector, on a flow file that
\* already holds steps.
C20_Witness ==
    /\ flow_op.op = "maestro_tap" /\ flow_op.args = <<"", "", "">>
    /\ ~flow_op.ok
    /\ Len(Steps(FlowText)) >= 2

(***************************************************************************)
(* Part 11: the device-registry properties, checked under DeviceSpec.      *)
(***************************************************************************)

\* A call of get_device_info without force_refresh for a device whose bag
\* is in the cache.
CachedCall ==
    /\ dev_op' # dev_op
    /\ dev_op'.op = "get_device_info" /\ ~dev_op'.force_refresh
    /\ dev_op'.device_id \in DOMAIN device_cache

\* C14: get_device_info(id) for a device asked about before, without
\* force_refresh, returns the cached bag as it is, invokes the bridge zero
\* times, and leaves the cache alone, whatever was asked about other devices
\* in between.
C14_CachedBagReturned ==
    [][CachedCall =>
          /\ dev_op'.info = device_cache[dev_op'.device_id]
          /\ dev_op'.queries = 0
          /\ device_cache' = device_cache]_vars

\* The cached bag of d1 was returned with no query although d1 now reports
\* another Android version, and d2 has been asked about as well.
C14_Witness ==
    /\ dev_op.op = "get_device_info" /\ dev_op.device_id = "d1"
    /\ ~dev_op.force_refresh /\ dev_op.queries = 0
    /\ bridge["d1"] = "device"
    /\ dev_op.info.android_version \notin {props["d1"], ""}
    /\ "d2" \in DOMAIN device_cache

\* A call of get_device_info with force_refresh.
RefreshCall ==
    /\ dev_op' # dev_op
    /\ dev_op'.op = "get_device_info" /\ dev_op'.force_refresh

\* C15: get_device_info(id, force_refresh=true) makes the full set of
\* queries, replaces the cache entry of id by the bag they give, no field
\* of the old entry kept, and leaves the entries of all other devices as
\* they were.
C15_RefreshOverwrites ==
    [][RefreshCall =>
          LET id == dev_op'.device_id IN
          /\ dev_op'.queries = NumQueries
          /\ device_cache'[id] \in FreshInfos(id)
          /\ dev_op'.info = device_cache'[id]
          /\ DOMAIN device_cache' = DOMAIN device_cache \cup {id}
          /\ \A d \in DOMAIN device_cache \ {id} :
                 device_cache'[d] = device_cache[d]]_vars

\* A forced refresh of d1 has replaced a cached bag by one with another
\* Android version, while the cached bag of d2 is out of date and kept.
C15_Witness ==
    /\ dev_op.op = "get_device_info" /\ dev_op.device_id = "d1"
    /\ dev_op.force_refresh
    /\ dev_op.info.android_version = "14"
    /\ device_cache["d1"] = dev_op.info
    /\ "d2" \in DOMAIN device_cache
    /\ bridge["d2"] = "device"
    /\ device_cache["d2"].android_version \notin {props["d2"], ""}

\* C16: get_devices returns exactly the listed devices whose status is
\* "device", in the order the bridge lists them; the header line is not
\* taken for a device, and no unauthorized or offline device is returned.
C16_AuthorizedInOrder ==
    [][dev_op' # dev_op /\ dev_op'.op = "get_devices" =>
          /\ dev_op'.listed =
                 SelectSeq(DevOrder, LAMBDA d : bridge[d] = "device")
          /\ \A i \in 1..Len(dev_op'.listed) :
                 /\ dev_op'.listed[i] \in DeviceIds
                 /\ bridge[dev_op'.listed[i]] \notin {"unauthorized", "offline"}]_vars

\* get_devices returned d2 alone while d1 was listed before it as
\* unauthorized or offline.
C16_Witness ==
    /\ dev_op.op = "get_devices"
    /\ dev_op.listed = <<"d2">>
    /\ bridge["d1"] \in {"unauthorized", "offline"}
    /\ bridge["d2"] = "device"

(***************************************************************************)
(* Part 12: more device-session properties, checked under SessionSpec.     *)
(***************************************************************************)

\* The last request was a press of the button named last.arg.
PressCall == last.method \in {"mcp.mobile_press_button", "press_button"}

\* The key events among the commands of the last request.
KeyEvents == SelectSeq(last.cmds, LAMBDA c : c.cmd = "input keyevent")

\* The keycode of each name of the fixed set, as the command line spells it.
Keycode(name) ==
    CASE name = "BACK" -> "4" [] name = "HOME" -> "3"
      [] name = "VOLUME_UP" -> "24" [] name = "VOLUME_DOWN" -> "25"
      [] name = "ENTER" -> "66" [] OTHER -> "none"

\* The name a press is looked up under: the adapter upper-cases it, the
\* server tool takes it as given.
LookedUp == IF last.impl = "adapter" THEN Upper(last.arg) ELSE last.arg

\* C23 (as amended): press_button accepts a name only if the name it looks
\* up (upper-cased by the adapter, as given by the server tool) is one of
\* BACK, HOME, VOLUME_UP, VOLUME_DOWN, ENTER; any other name fails and sends
\* no key event; an accepted name, with a device bound, sends exactly one
\* key event, with that button's keycode, to the bound device.
C23_FixedButtonSet ==
    PressCall =>
        IF Keycode(LookedUp) # "none" /\ Truthy(last.prior)
        THEN /\ Len(KeyEvents) = 1
             /\ KeyEvents[1].dev = last.prior
             /\ KeyEvents[1].arg = <<Keycode(LookedUp)>>
        ELSE ~last.success /\ KeyEvents = <<>>

\* C23 (as stated): a name that is not literally in the fixed set is
\* rejected and sends no key event; a name in it sends exactly one key
\* event with its keycode to the bound device.
C23_LiteralNamesOnly ==
    PressCall =>
        IF Keycode(last.arg) # "none" /\ Truthy(last.prior)
        THEN /\ Len(KeyEvents) = 1
             /\ KeyEvents[1].dev = last.prior
             /\ KeyEvents[1].arg = <<Keycode(last.arg)>>
        ELSE ~last.success /\ KeyEvents = <<>>

\* BACK was pressed on the bound device d2, and the key event went through.
C23_Witness ==
    /\ PressCall /\ last.arg = "BACK" /\ last.prior = "d2"
    /\ last.success /\ Len(KeyEvents) = 1

\* C24: every response of the adapter carries jsonrpc "2.0", the id of the
\* request it answers (0 when the request line could not be parsed), and
\* exactly one of result and error; the code of an error is the
\* method-not-found or the operation-failed code, the latter being used for
\* a request that does not parse as well.
C24_ResponseEnvelope ==
    last.impl = "adapter" =>
        /\ last.jsonrpc = "2.0"
        /\ last.id = (IF last.method = "malformed" THEN 0 ELSE 1)
        /\ last.id # 0 => last.id \in ReqIds
        /\ last.has_result # last.has_error
        /\ last.has_error => last.code \in {MethodNotFound, OperationFailed}
        /\ last.has_result => last.code = 0 /\ last.success

\* A screenshot request failed after its first command and was answered
\* with an error.
C24_Witness ==
    /\ last.impl = "adapter" /\ last.method = "mcp.mobile_take_screenshot"
    /\ last.has_error /\ ~last.has_result
    /\ last.code = OperationFailed
    /\ Len(DeviceCmds(last.cmds)) = 2

\* The methods and tools with a required parameter; last.arg is "" when the
\* request did not carry it.
ParamOps ==
    UseDeviceMethods
    \cup {"mcp.mobile_click_on_screen_at_coordinates", "mcp.swipe_on_screen",
          "mcp.mobile_type_keys", "mcp.mobile_press_button",
          "mcp.mobile_launch_app", "mcp.mobile_terminate_app",
          "mcp.mobile_open_url"}
    \cup {"click_on_screen_at_coordinates", "swipe_on_screen", "type_keys",
          "press_button", "launch_app", "terminate_app", "open_url"}

\* C25: a request that omits a required parameter is answered with an
\* error, sends no command to a device and leaves the binding as it was.
C25_MissingParameterRejected ==
    last.method \in ParamOps /\ last.arg = "" =>
        /\ last.has_error \/ last.raised
        /\ DeviceCmds(last.cmds) = <<>>
        /\ last.impl = "adapter" => current_device = last.prior
        /\ last.impl = "server" => srv_current_device = last.prior

ScreenshotSteps == <<"screencap", "pull", "rm">>

\* The last operation was a screenshot on a bound device.
ScreenshotCall ==
    /\ last.method \in {"mcp.mobile_take_screenshot", "take_screenshot"}
    /\ Truthy(last.prior)

\* C21: a screenshot sends capture, pull and remove in that order to the
\* bound device and stops at the first command that fails; it succeeds only
\* when all three were sent, and a failed one is reported as a failure.
C21_ScreenshotSteps ==
    ScreenshotCall =>
        LET c == DeviceCmds(last.cmds) IN
        /\ Len(c) \in 1..3
        /\ \A i \in 1..Len(c) :
               c[i].cmd = ScreenshotSteps[i] /\ c[i].dev = last.prior
        /\ last.success => Len(c) = 3
        /\ c[1].status # "device" => Len(c) = 1 /\ ~last.success
        /\ ~last.success => last.has_error \/ last.raised

\* A screenshot whose pull failed: the remove was not sent.
C21_Witness ==
    /\ ScreenshotCall /\ last.method = "take_screenshot"
    /\ ~last.success /\ last.raised
    /\ Len(DeviceCmds(last.cmds)) = 2
    /\ DeviceCmds(last.cmds)[2].cmd = "pull"

\* The x,y pairs of a click that carry a negative coordinate.
NegativeClicks == {"-1,-1", "-1,7", "7,-1"}

\* C22: a tap whose request carries a negative coordinate is rejected with
\* a failure and sends no command to the device.
C22_NegativeCoordinateRejected ==
    /\ last.method \in {"mcp.mobile_click_on_screen_at_coordinates",
                        "click_on_screen_at_coordinates"}
    /\ last.arg \in NegativeClicks
    => /\ last.has_error \/ last.raised
       /\ DeviceCmds(last.cmds) = <<>>

(***************************************************************************)
(* Part 13: construction and screen recording, checked under RecordSpec.   *)
(***************************************************************************)

At(e) == {i \in 1..Len(rec.events) : rec.events[i] = e}

\* C27: record_screen never waits for its recording thread: whatever the
\* thread is doing, the calling thread can take its next step, the pull and
\* the return included.
C27_ForegroundNeverWaits ==
    proc = "running" /\ rec.pc = "running" => ENABLED RecordStep

\* record_screen pulled the file and returned while the recording
\* invocation was still running.
C27_Witness ==
    /\ rec.pc = "returned" /\ At("pull") # {}
    /\ rec.thread = "running"

\* C28: the calling thread starts the recording, ticks once per second of
\* the duration (not at all for a duration below one), sends the stop
\* signal, waits, pulls and then deletes: the stop comes right after the
\* last tick, the pull right after the wait, the delete right after the
\* pull, and a call that returned went through all of them.
C28_ForegroundOrder ==
    rec.pc # "idle" =>
        LET n == IF rec.duration > 0 THEN rec.duration ELSE 0 IN
        /\ At("start") = {1}
        /\ At("tick") \subseteq 2..(n + 1)
        /\ At("stop") \subseteq {n + 2}
        /\ At("grace") \subseteq {n + 3}
        /\ At("pull") \subseteq {n + 4}
        /\ At("delete") \subseteq {n + 5}
        /\ At("stop") # {} => Cardinality(At("tick")) = n
        /\ rec.pc = "returned" <=> At("delete") # {}
        /\ rec.pc = "raised" => Len(rec.events) = n + 4

\* A recording of two seconds that returned.
C28_Witness ==
    /\ rec.pc = "returned" /\ rec.duration = 2
    /\ rec.events = <<"start", "tick", "tick", "stop", "grace", "pull",
                      "delete">>

(***************************************************************************)
(* Part 14: running the current flow, checked under FlowSpec.              *)
(***************************************************************************)

\* execute_maestro_flow reached maestro_run_flow on the flow now in memory.
RunCurrent ==
    /\ flow_op.op = "execute_maestro_flow"
    /\ flow_op.args[1] # None /\ ~flow_op.raised

\* C30: run on an empty flow, maestro_run_flow fails, writes no temporary
\* file and starts no runner; run on a flow with steps, it writes the
\* temporary file, which read back is exactly the flow in memory, and only
\* then starts the runner.
C30_RunWritesThenLaunches ==
    RunCurrent =>
        IF maestro_flow = <<>>
        THEN /\ ~flow_op.ok /\ flow_op.launched = 0
             /\ flow_op.calls = <<>> /\ ~flow_op.temp.exists
        ELSE /\ flow_op.calls = <<"makedirs", "open", "maestro test">>
             /\ flow_op.launched = 1
             /\ flow_op.temp.exists
             /\ flow_op.temp.content = WriteText(maestro_flow, os_linesep)
             /\ ReadText(flow_op.temp.content) = maestro_flow

\* The flow of a controller that holds none was run: nothing was written
\* and nothing started.
C30_Witness ==
    /\ RunCurrent /\ maestro_flow = <<>>
    /\ ~flow_op.ok /\ flow_op.calls = <<>>
    /\ flow_op.message = "No Maestro flow to run"

====
